---- MODULE Spec2Model ----
(* Credential lifecycle of google-tasks-mcp: TokenStorage (encrypted token  *)
(* file) and OAuthManager (PKCE, code exchange, refresh, callback server).  *)
(* Each public method is an operator over the state it reads, returning the *)
(* state it leaves and what it returned or threw; one action per method     *)
(* applies it.  A driver calls the methods one at a time.                   *)
EXTENDS Integers, Sequences, FiniteSets, TLC

\* ------------------------------------------------------------- bounds ----
MaxTicks == 1
MaxPortBumps == 1
MaxInstant == 3600
MaxRequests == 2
MaxBatch == 2
MaxAttempt == 6
MaxCalls == 3
MaxClockSteps == 5

\* ---------------------------------------------------- program constants --
buffer == 300
\* The seconds one step of the model's clock takes.
TickStep == buffer \div 3
PreferredPort == 8080
ConfiguredPort == 8080

\* ------------------------------------------------------------- values ----
\* An optional string that is undefined, an optional number that is undefined.
NoStr == "none"
NoNum == -1

AccessTokens == {"a1", "a2"}
RefreshTokens == {"r1", "r2"}
Lifetimes == {0, buffer + TickStep}
Scopes == {"tasks"}
Verifiers == {"v1", "v2"}
StateTokens == {"s1"}
Codes == {"c1"}

\* JavaScript truthiness of an optional string / optional number.
TruthyStr(s) == s # NoStr /\ s # ""
TruthyNum(n) == n # NoNum /\ n # 0

\* interface TokenSet (token_type is a constant of the provider and is left out)
TokenSet(at, rt, ein, sc, eat) ==
    [access_token |-> at, refresh_token |-> rt, expires_in |-> ein,
     scope |-> sc, expires_at |-> eat]

NullTokens == TokenSet(NoStr, NoStr, NoNum, NoStr, NoNum)

\* The JSON bodies the token endpoint answers a successful request with.
TokenBodies ==
    { TokenSet(at, rt, ein, sc, NoNum) :
        at \in AccessTokens, rt \in RefreshTokens \cup {NoStr},
        ein \in Lifetimes \cup {NoNum}, sc \in Scopes }

\* What fetch() on the token endpoint produces: a network error (fetch
\* rejects) or a response with a status, a text and a JSON body.
NoResp == [net |-> FALSE, status |-> 0, text |-> NoStr, body |-> NullTokens]
Responses ==
    { [net |-> FALSE, status |-> 0, text |-> "ECONNRESET", body |-> NullTokens] }
    \cup { [net |-> TRUE, status |-> 400, text |-> "invalid_grant", body |-> NullTokens],
           [net |-> TRUE, status |-> 500, text |-> "server_error", body |-> NullTokens] }
    \cup { [net |-> TRUE, status |-> 200, text |-> NoStr, body |-> b] : b \in TokenBodies }

ResponseOk(resp) == resp.status >= 200 /\ resp.status <= 299

\* Values a method returns.
VoidV == [kind |-> "void"]
NullV == [kind |-> "null"]
BoolV(b) == [kind |-> "bool", b |-> b]
StrV(s) == [kind |-> "string", s |-> s]
TokV(t) == [kind |-> "tokens", tokens |-> t]
UrlV(u) == [kind |-> "url", url |-> u]
PkceV(p) == [kind |-> "pkce", pkce |-> p]
BatchV(r) == [kind |-> "batch", operations |-> r]
DelayV(k, d) == [kind |-> "delay", attempt |-> k, n |-> d]

\* oauth2Client credentials: none set yet, or those of setCredentials.
NoCredentials == [access_token |-> NoStr, refresh_token |-> NoStr]

\* How a method completes: it returns a value or throws an Error.
NoErr == [msg |-> NoStr, status |-> 0, text |-> NoStr]
Return(v) == [status |-> "ok", err |-> NoErr, val |-> v]
Throw(m, st, tx) ==
    [status |-> "error", err |-> [msg |-> m, status |-> st, text |-> tx], val |-> VoidV]

\* ------------------------------------------------------- TokenStorage ----
\* The file at tokenFilePath: absent; present but unreadable (EACCES);
\* present with content that is not JSON; present with a JSON envelope that
\* does not decrypt under the machine key; present with the envelope of a
\* TokenSet.
AbsentFile == [kind |-> "absent", tokens |-> NullTokens]
UnreadableFile == [kind |-> "unreadable", tokens |-> NullTokens]
BadJsonFile == [kind |-> "badjson", tokens |-> NullTokens]
BadTagFile == [kind |-> "badtag", tokens |-> NullTokens]
GoodFile(t) == [kind |-> "good", tokens |-> t]

CorruptKinds == {"unreadable", "badjson", "badtag"}

\* fs.readFile: the error code it rejects with, or "" when it yields content.
readFile(f) ==
    CASE f.kind = "absent" -> "ENOENT"
      [] f.kind = "unreadable" -> "EACCES"
      [] OTHER -> ""

\* A variant that takes every failure for a missing file.
loadTokensSwallowErrors(f) ==
    IF f.kind = "good" THEN Return(TokV(f.tokens)) ELSE Return(NullV)

\* A variant that takes every file-system error for a missing file.
loadTokensAnyFsError(f) ==
    LET code == readFile(f) IN
    IF code # ""
    THEN Return(NullV)
    ELSE IF f.kind = "badjson"
         THEN Throw("Failed to load tokens", 0, "SyntaxError")
    ELSE IF f.kind = "badtag"
         THEN Throw("Failed to load tokens", 0, "auth tag")
    ELSE Return(TokV(f.tokens))

loadTokens(f) ==
    LET code == readFile(f) IN
    IF code # ""
    THEN IF code = "ENOENT"
         THEN Return(NullV)
         ELSE Throw("Failed to load tokens", 0, code)
    ELSE IF f.kind = "badjson"
         THEN Throw("Failed to load tokens", 0, "SyntaxError")
    ELSE IF f.kind = "badtag"
         THEN Throw("Failed to load tokens", 0, "auth tag")
    ELSE Return(TokV(f.tokens))

\* w is what fs.writeFile does: "ok"; "open_fail" (the file is not opened,
\* nothing changes); "write_fail" (opened and truncated, the write fails).
WriteOutcomes == {"ok", "open_fail", "write_fail"}

\* A variant that removes the partial file after a failed write.
saveTokensRemovePartial(f, tokens, w) ==
    CASE w = "ok" -> [file |-> GoodFile(tokens), ret |-> Return(VoidV)]
      [] w = "open_fail" -> [file |-> f, ret |-> Throw("writeFile", 0, "EACCES")]
      [] OTHER -> [file |-> AbsentFile, ret |-> Throw("writeFile", 0, "ENOSPC")]

saveTokens(f, tokens, w) ==
    CASE w = "ok" -> [file |-> GoodFile(tokens), ret |-> Return(VoidV)]
      [] w = "open_fail" -> [file |-> f, ret |-> Throw("writeFile", 0, "EACCES")]
      [] OTHER -> [file |-> BadJsonFile, ret |-> Throw("writeFile", 0, "ENOSPC")]

\* u is what fs.unlink does on an existing file.
UnlinkOutcomes == {"ok", "fail"}

StorageClearTokens(f, u) ==
    IF f.kind = "absent"
    THEN [file |-> f, ret |-> Return(VoidV)]
    ELSE IF u = "ok"
         THEN [file |-> AbsentFile, ret |-> Return(VoidV)]
         ELSE [file |-> f, ret |-> Throw("Failed to clear tokens", 0, "EPERM")]

hasTokens(f) == f.kind # "absent"

isTokenExpired(tokens, t) ==
    IF ~TruthyNum(tokens.expires_at)
    THEN FALSE
    ELSE tokens.expires_at <= (t + buffer)

updateTokenExpiry(tokens, t) ==
    IF TruthyNum(tokens.expires_in)
    THEN [tokens EXCEPT !.expires_at = t + tokens.expires_in]
    ELSE tokens

\* The caller's object after updateTokenExpiry(tokens): the method assigns
\* expires_at on its parameter and returns that parameter, so the object
\* passed in and the object returned are one.
updateTokenExpiryArgument(tokens, t) == updateTokenExpiry(tokens, t)

\* ------------------------------------------------------- OAuthManager ----
\* CryptoManager.generateSHA256Hash on the verifiers of the model: a one-way,
\* collision-free digest.
generateSHA256Hash(v) == "sha256(" \o v \o ")"

NoPKCE == [verifier |-> NoStr, challenge |-> NoStr, method |-> NoStr]

\* v is the string CryptoManager.generateRandomString(128) draws.
generatePKCE(v) ==
    [verifier |-> v, challenge |-> generateSHA256Hash(v), method |-> "S256"]

\* `http://localhost:${port}/oauth/callback`
RedirectUri(port) == [host |-> "localhost", port |-> port, path |-> "/oauth/callback"]

NoRedirect == [host |-> NoStr, port |-> 0, path |-> NoStr]

NoUrl == [redirect_uri |-> NoRedirect, code_challenge |-> NoStr,
          code_challenge_method |-> NoStr, state |-> NoStr]

\* A variant that keeps a challenge that is already pending.
getAuthorizationUrlKeepPending(pkce, redirect, v, s) ==
    LET fresh == generatePKCE(v) IN
    [pkce |-> IF pkce # NoPKCE THEN pkce ELSE fresh,
     url |-> [redirect_uri |-> redirect, code_challenge |-> fresh.challenge,
              code_challenge_method |-> fresh.method, state |-> s]]

\* v and s are the random verifier and the random state token; the challenge
\* pending before the call is overwritten.
getAuthorizationUrl(current, redirect, v, s) ==
    LET pkce == generatePKCE(v) IN
    [pkce |-> pkce,
     url |-> [redirect_uri |-> redirect, code_challenge |-> pkce.challenge,
              code_challenge_method |-> pkce.method, state |-> s]]

\* The form body POSTed to the token endpoint.
TokenRequest(grant, code, verifier, refresh, redirect) ==
    [grant_type |-> grant, code |-> code, code_verifier |-> verifier,
     refresh_token |-> refresh, redirect_uri |-> redirect]

\* What a method leaves behind: the token file, the pending challenge, how
\* the call completed and the token-endpoint requests it sent.
Eff(f, pkce, ret, reqs) == [file |-> f, pkce |-> pkce, ret |-> ret, reqs |-> reqs]

\* A variant without the check for a pending challenge.
exchangeCodeNoGuard(f, pkce, redirect, t, code, resp, w) ==
    LET req == TokenRequest("authorization_code", code, pkce.verifier, NoStr, redirect) IN
    IF ~resp.net
    THEN Eff(f, pkce, Throw("fetch failed", 0, resp.text), <<req>>)
    ELSE IF ~ResponseOk(resp)
    THEN Eff(f, pkce, Throw("Token exchange failed", resp.status, resp.text), <<req>>)
    ELSE
      LET tokensWithExpiry == updateTokenExpiry(resp.body, t)
          saved == saveTokens(f, tokensWithExpiry, w)
      IN IF saved.ret.status = "error"
         THEN Eff(saved.file, pkce, saved.ret, <<req>>)
         ELSE Eff(saved.file, NoPKCE, Return(TokV(tokensWithExpiry)), <<req>>)

\* A variant that leaves the challenge pending after a successful exchange.
exchangeCodeKeepChallenge(f, pkce, redirect, t, code, resp, w) ==
    IF pkce = NoPKCE
    THEN Eff(f, pkce, Throw("No PKCE challenge found. Must call getAuthorizationUrl() first.", 0, NoStr), <<>>)
    ELSE
      LET req == TokenRequest("authorization_code", code, pkce.verifier, NoStr, redirect) IN
      IF ~resp.net
      THEN Eff(f, pkce, Throw("fetch failed", 0, resp.text), <<req>>)
      ELSE IF ~ResponseOk(resp)
      THEN Eff(f, pkce, Throw("Token exchange failed", resp.status, resp.text), <<req>>)
      ELSE
        LET tokensWithExpiry == updateTokenExpiry(resp.body, t)
            saved == saveTokens(f, tokensWithExpiry, w)
        IN IF saved.ret.status = "error"
           THEN Eff(saved.file, pkce, saved.ret, <<req>>)
           ELSE Eff(saved.file, pkce, Return(TokV(tokensWithExpiry)), <<req>>)

\* A variant that does not look at response.ok.
exchangeCodeIgnoreStatus(f, pkce, redirect, t, code, resp, w) ==
    IF pkce = NoPKCE
    THEN Eff(f, pkce, Throw("No PKCE challenge found. Must call getAuthorizationUrl() first.", 0, NoStr), <<>>)
    ELSE
      LET req == TokenRequest("authorization_code", code, pkce.verifier, NoStr, redirect) IN
      IF ~resp.net
      THEN Eff(f, pkce, Throw("fetch failed", 0, resp.text), <<req>>)
      ELSE
        LET tokensWithExpiry == updateTokenExpiry(resp.body, t)
            saved == saveTokens(f, tokensWithExpiry, w)
        IN IF saved.ret.status = "error"
           THEN Eff(saved.file, pkce, saved.ret, <<req>>)
           ELSE Eff(saved.file, NoPKCE, Return(TokV(tokensWithExpiry)), <<req>>)

\* A variant that clears the challenge as soon as the request is built.
exchangeCodeForTokensClearsEarly(f, pkce, redirect, t, code, resp, w) ==
    IF pkce = NoPKCE
    THEN Eff(f, pkce, Throw("No PKCE challenge found. Must call getAuthorizationUrl() first.", 0, NoStr), <<>>)
    ELSE
      LET req == TokenRequest("authorization_code", code, pkce.verifier, NoStr, redirect) IN
      IF ~resp.net
      THEN Eff(f, NoPKCE, Throw("fetch failed", 0, resp.text), <<req>>)
      ELSE IF ~ResponseOk(resp)
      THEN Eff(f, NoPKCE, Throw("Token exchange failed", resp.status, resp.text), <<req>>)
      ELSE
        LET tokensWithExpiry == updateTokenExpiry(resp.body, t)
            saved == saveTokens(f, tokensWithExpiry, w)
        IN IF saved.ret.status = "error"
           THEN Eff(saved.file, NoPKCE, saved.ret, <<req>>)
           ELSE Eff(saved.file, NoPKCE, Return(TokV(tokensWithExpiry)), <<req>>)

exchangeCodeForTokens(f, pkce, redirect, t, code, resp, w) ==
    IF pkce = NoPKCE
    THEN Eff(f, pkce, Throw("No PKCE challenge found. Must call getAuthorizationUrl() first.", 0, NoStr), <<>>)
    ELSE
      LET req == TokenRequest("authorization_code", code, pkce.verifier, NoStr, redirect) IN
      IF ~resp.net
      THEN Eff(f, pkce, Throw("fetch failed", 0, resp.text), <<req>>)
      ELSE IF ~ResponseOk(resp)
      THEN Eff(f, pkce, Throw("Token exchange failed", resp.status, resp.text), <<req>>)
      ELSE
        LET tokensWithExpiry == updateTokenExpiry(resp.body, t)
            saved == saveTokens(f, tokensWithExpiry, w)
        IN IF saved.ret.status = "error"
           THEN Eff(saved.file, pkce, saved.ret, <<req>>)
           ELSE Eff(saved.file, NoPKCE, Return(TokV(tokensWithExpiry)), <<req>>)

\* A variant that stores the response as it came, without carrying the
\* previous refresh token forward.
refreshDropRefreshToken(f, pkce, t, resp, w) ==
    LET loaded == loadTokens(f) IN
    IF loaded.status = "error"
    THEN Eff(f, pkce, loaded, <<>>)
    ELSE IF loaded.val.kind = "null" \/ ~TruthyStr(loaded.val.tokens.refresh_token)
    THEN Eff(f, pkce, Throw("No refresh token available. Re-authentication required.", 0, NoStr), <<>>)
    ELSE
      LET existingTokens == loaded.val.tokens
          req == TokenRequest("refresh_token", NoStr, NoStr, existingTokens.refresh_token, NoRedirect)
      IN
      IF ~resp.net
      THEN Eff(f, pkce, Throw("fetch failed", 0, resp.text), <<req>>)
      ELSE IF ~ResponseOk(resp)
      THEN Eff(f, pkce, Throw("Token refresh failed", resp.status, resp.text), <<req>>)
      ELSE
        LET tokensWithExpiry == updateTokenExpiry(resp.body, t)
            saved == saveTokens(f, tokensWithExpiry, w)
        IN IF saved.ret.status = "error"
           THEN Eff(saved.file, pkce, saved.ret, <<req>>)
           ELSE Eff(saved.file, pkce, Return(TokV(tokensWithExpiry)), <<req>>)

\* A variant that only checks that a record exists, not that it holds a
\* refresh token.
refreshWithoutTokenCheck(f, pkce, t, resp, w) ==
    LET loaded == loadTokens(f) IN
    IF loaded.status = "error"
    THEN Eff(f, pkce, loaded, <<>>)
    ELSE IF loaded.val.kind = "null"
    THEN Eff(f, pkce, Throw("No refresh token available. Re-authentication required.", 0, NoStr), <<>>)
    ELSE
      LET existingTokens == loaded.val.tokens
          req == TokenRequest("refresh_token", NoStr, NoStr, existingTokens.refresh_token, NoRedirect)
      IN
      IF ~resp.net
      THEN Eff(f, pkce, Throw("fetch failed", 0, resp.text), <<req>>)
      ELSE IF ~ResponseOk(resp)
      THEN Eff(f, pkce, Throw("Token refresh failed", resp.status, resp.text), <<req>>)
      ELSE
        LET newTokens ==
              IF ~TruthyStr(resp.body.refresh_token) /\ TruthyStr(existingTokens.refresh_token)
              THEN [resp.body EXCEPT !.refresh_token = existingTokens.refresh_token]
              ELSE resp.body
            tokensWithExpiry == updateTokenExpiry(newTokens, t)
            saved == saveTokens(f, tokensWithExpiry, w)
        IN IF saved.ret.status = "error"
           THEN Eff(saved.file, pkce, saved.ret, <<req>>)
           ELSE Eff(saved.file, pkce, Return(TokV(tokensWithExpiry)), <<req>>)

\* A variant that goes on without a stored record.
refreshWithoutRecord(f, pkce, t, resp, w) ==
    LET loaded == loadTokens(f) IN
    IF loaded.status = "error"
    THEN Eff(f, pkce, loaded, <<>>)
    ELSE
      LET existingTokens == IF loaded.val.kind = "null" THEN NullTokens ELSE loaded.val.tokens
          req == TokenRequest("refresh_token", NoStr, NoStr, existingTokens.refresh_token, NoRedirect)
      IN
      IF ~resp.net
      THEN Eff(f, pkce, Throw("fetch failed", 0, resp.text), <<req>>)
      ELSE IF ~ResponseOk(resp)
      THEN Eff(f, pkce, Throw("Token refresh failed", resp.status, resp.text), <<req>>)
      ELSE
        LET newTokens ==
              IF ~TruthyStr(resp.body.refresh_token) /\ TruthyStr(existingTokens.refresh_token)
              THEN [resp.body EXCEPT !.refresh_token = existingTokens.refresh_token]
              ELSE resp.body
            tokensWithExpiry == updateTokenExpiry(newTokens, t)
            saved == saveTokens(f, tokensWithExpiry, w)
        IN IF saved.ret.status = "error"
           THEN Eff(saved.file, pkce, saved.ret, <<req>>)
           ELSE Eff(saved.file, pkce, Return(TokV(tokensWithExpiry)), <<req>>)

refreshAccessToken(f, pkce, t, resp, w) ==
    LET loaded == loadTokens(f) IN
    IF loaded.status = "error"
    THEN Eff(f, pkce, loaded, <<>>)
    ELSE IF loaded.val.kind = "null" \/ ~TruthyStr(loaded.val.tokens.refresh_token)
    THEN Eff(f, pkce, Throw("No refresh token available. Re-authentication required.", 0, NoStr), <<>>)
    ELSE
      LET existingTokens == loaded.val.tokens
          req == TokenRequest("refresh_token", NoStr, NoStr, existingTokens.refresh_token, NoRedirect)
      IN
      IF ~resp.net
      THEN Eff(f, pkce, Throw("fetch failed", 0, resp.text), <<req>>)
      ELSE IF ~ResponseOk(resp)
      THEN Eff(f, pkce, Throw("Token refresh failed", resp.status, resp.text), <<req>>)
      ELSE
        LET newTokens ==
              IF ~TruthyStr(resp.body.refresh_token) /\ TruthyStr(existingTokens.refresh_token)
              THEN [resp.body EXCEPT !.refresh_token = existingTokens.refresh_token]
              ELSE resp.body
            tokensWithExpiry == updateTokenExpiry(newTokens, t)
            saved == saveTokens(f, tokensWithExpiry, w)
        IN IF saved.ret.status = "error"
           THEN Eff(saved.file, pkce, saved.ret, <<req>>)
           ELSE Eff(saved.file, pkce, Return(TokV(tokensWithExpiry)), <<req>>)

isTokenValid(f, t) ==
    LET loaded == loadTokens(f) IN
    IF loaded.status = "error"
    THEN loaded
    ELSE IF loaded.val.kind = "null"
    THEN Return(BoolV(FALSE))
    ELSE Return(BoolV(~isTokenExpired(loaded.val.tokens, t)))

\* scope?.split(' '): the granted scopes, <<>> standing for undefined.
SplitScope(sc) == IF sc = NoStr THEN <<>> ELSE <<sc>>

StatusV(auth, valid, expiry, scopes) ==
    [kind |-> "status", isAuthenticated |-> auth, hasValidToken |-> valid,
     tokenExpiry |-> expiry, scopes |-> scopes]

\* A variant that brings an expired record up to date before it reports.
getAuthStatusRefreshing(f, pkce, t) ==
    LET has == hasTokens(f)
        valid == IF has THEN isTokenValid(f, t) ELSE Return(BoolV(FALSE))
        fresh == IF valid.status = "ok" /\ ~valid.val.b
                 THEN refreshAccessToken(f, pkce, t, NoResp, "ok")
                 ELSE Eff(f, pkce, valid, <<>>)
        loaded == loadTokens(fresh.file)
    IN
    IF valid.status = "error"
    THEN Eff(f, pkce, valid, <<>>)
    ELSE IF ~has
    THEN Eff(f, pkce, Return(StatusV(FALSE, valid.val.b, NoNum, <<>>)), <<>>)
    ELSE IF loaded.status = "error"
    THEN Eff(fresh.file, pkce, loaded, fresh.reqs)
    ELSE IF loaded.val.kind = "null"
    THEN Eff(fresh.file, pkce, Return(StatusV(has, valid.val.b, NoNum, <<>>)), fresh.reqs)
    ELSE Eff(fresh.file, pkce,
             Return(StatusV(has, valid.val.b, loaded.val.tokens.expires_at,
                            SplitScope(loaded.val.tokens.scope))),
             fresh.reqs)

\* hasTokens, isTokenValid and loadTokens only read the file; fetch is not
\* called and no field of the manager is assigned.
getAuthStatus(f, pkce, t) ==
    LET has == hasTokens(f)
        valid == IF has THEN isTokenValid(f, t) ELSE Return(BoolV(FALSE))
        loaded == loadTokens(f)
    IN
    IF valid.status = "error"
    THEN Eff(f, pkce, valid, <<>>)
    ELSE IF ~has
    THEN Eff(f, pkce, Return(StatusV(FALSE, valid.val.b, NoNum, <<>>)), <<>>)
    ELSE IF loaded.status = "error"
    THEN Eff(f, pkce, loaded, <<>>)
    ELSE IF loaded.val.kind = "null"
    THEN Eff(f, pkce, Return(StatusV(has, valid.val.b, NoNum, <<>>)), <<>>)
    ELSE Eff(f, pkce,
             Return(StatusV(has, valid.val.b, loaded.val.tokens.expires_at,
                            SplitScope(loaded.val.tokens.scope))),
             <<>>)

\* A variant that falls back to the stored access token when the refresh
\* fails.
getValidAccessTokenStaleFallback(f, pkce, t, resp, w) ==
    LET isValid == isTokenValid(f, t) IN
    IF isValid.status = "error"
    THEN Eff(f, pkce, isValid, <<>>)
    ELSE IF ~isValid.val.b
    THEN
      LET refreshed == refreshAccessToken(f, pkce, t, resp, w) IN
      IF refreshed.ret.status = "error"
      THEN IF f.kind = "good"
           THEN Eff(refreshed.file, pkce, Return(StrV(f.tokens.access_token)), refreshed.reqs)
           ELSE Eff(refreshed.file, pkce,
                    Throw("Token refresh failed. Re-authentication required.", 0, NoStr),
                    refreshed.reqs)
      ELSE Eff(refreshed.file, pkce,
               Return(StrV(refreshed.ret.val.tokens.access_token)), refreshed.reqs)
    ELSE
      LET loaded == loadTokens(f) IN
      IF loaded.status = "error"
      THEN Eff(f, pkce, loaded, <<>>)
      ELSE IF loaded.val.kind = "null"
      THEN Eff(f, pkce, Throw("No tokens available. Authentication required.", 0, NoStr), <<>>)
      ELSE Eff(f, pkce, Return(StrV(loaded.val.tokens.access_token)), <<>>)

getValidAccessToken(f, pkce, t, resp, w) ==
    LET isValid == isTokenValid(f, t) IN
    IF isValid.status = "error"
    THEN Eff(f, pkce, isValid, <<>>)
    ELSE IF ~isValid.val.b
    THEN
      LET refreshed == refreshAccessToken(f, pkce, t, resp, w) IN
      IF refreshed.ret.status = "error"
      THEN Eff(refreshed.file, pkce,
               Throw("Token refresh failed. Re-authentication required.", 0, NoStr),
               refreshed.reqs)
      ELSE Eff(refreshed.file, pkce,
               Return(StrV(refreshed.ret.val.tokens.access_token)), refreshed.reqs)
    ELSE
      LET loaded == loadTokens(f) IN
      IF loaded.status = "error"
      THEN Eff(f, pkce, loaded, <<>>)
      ELSE IF loaded.val.kind = "null"
      THEN Eff(f, pkce, Throw("No tokens available. Authentication required.", 0, NoStr), <<>>)
      ELSE Eff(f, pkce, Return(StrV(loaded.val.tokens.access_token)), <<>>)

\* A variant that hands out the stored record when the refresh fails.
getValidTokensStaleRecord(f, pkce, t, resp, w) ==
    LET isValid == isTokenValid(f, t) IN
    IF isValid.status = "error"
    THEN Eff(f, pkce, isValid, <<>>)
    ELSE IF ~isValid.val.b
    THEN
      LET refreshed == refreshAccessToken(f, pkce, t, resp, w) IN
      IF refreshed.ret.status = "error"
      THEN Eff(refreshed.file, pkce, loadTokens(f), refreshed.reqs)
      ELSE refreshed
    ELSE Eff(f, pkce, loadTokens(f), <<>>)

\* A variant that tries the refresh a second time when it fails.
getValidTokensRetry(f, pkce, t, resp, w) ==
    LET isValid == isTokenValid(f, t) IN
    IF isValid.status = "error"
    THEN Eff(f, pkce, isValid, <<>>)
    ELSE IF ~isValid.val.b
    THEN
      LET refreshed == refreshAccessToken(f, pkce, t, resp, w) IN
      IF refreshed.ret.status = "error"
      THEN LET again == refreshAccessToken(refreshed.file, pkce, t, resp, w) IN
           IF again.ret.status = "error"
           THEN Eff(again.file, pkce, Return(NullV), refreshed.reqs \o again.reqs)
           ELSE Eff(again.file, pkce, again.ret, refreshed.reqs \o again.reqs)
      ELSE refreshed
    ELSE Eff(f, pkce, loadTokens(f), <<>>)

getValidTokens(f, pkce, t, resp, w) ==
    LET isValid == isTokenValid(f, t) IN
    IF isValid.status = "error"
    THEN Eff(f, pkce, isValid, <<>>)
    ELSE IF ~isValid.val.b
    THEN
      LET refreshed == refreshAccessToken(f, pkce, t, resp, w) IN
      IF refreshed.ret.status = "error"
      THEN Eff(refreshed.file, pkce, Return(NullV), refreshed.reqs)
      ELSE refreshed
    ELSE Eff(f, pkce, loadTokens(f), <<>>)

clearTokens(f, pkce, u) ==
    LET cleared == StorageClearTokens(f, u) IN
    Eff(cleared.file, pkce, cleared.ret, <<>>)

\* ------------------------------------------------ callback server, flow ----
NumV(n) == [kind |-> "number", n |-> n]

\* What listen() meets: `busy` ports in a row answer EADDRINUSE, then the
\* next one is bound, or (fail) listen reports another error.
StartOutcomes(port) ==
    { [busy |-> k, fail |-> b] :
        k \in { j \in 0..MaxPortBumps : port + j <= PreferredPort + MaxPortBumps },
        b \in BOOLEAN }

\* A variant that resolves with the port it was asked to listen on first.
startCallbackServerFirstPort(port, start) ==
    [server |-> IF start.fail THEN "created" ELSE "listening",
     port |-> port + start.busy,
     ret |-> IF start.fail
             THEN Throw("listen", 0, "EACCES")
             ELSE Return(NumV(port))]

startCallbackServer(port, start) ==
    [server |-> IF start.fail THEN "created" ELSE "listening",
     port |-> port + start.busy,
     ret |-> IF start.fail
             THEN Throw("listen", 0, "EACCES")
             ELSE Return(NumV(port + start.busy))]

\* What reaches the listener while waitForCallback is pending: a request on
\* /oauth/callback with its query parameters, or nothing for 5 minutes.
Callbacks ==
    { [timeout |-> TRUE, code |-> NoStr, error |-> NoStr, error_description |-> NoStr] }
    \cup { [timeout |-> FALSE, code |-> c, error |-> e,
            error_description |-> IF e = NoStr THEN NoStr ELSE "user declined"] :
             c \in Codes \cup {NoStr}, e \in {NoStr, "access_denied"} }

waitForCallback(server, cb) ==
    IF server = "null"
    THEN Throw("Callback server not started", 0, NoStr)
    ELSE IF cb.timeout
    THEN Throw("OAuth callback timeout", 0, NoStr)
    ELSE IF TruthyStr(cb.error)
    THEN Throw("OAuth error", 0, cb.error \o " - " \o cb.error_description)
    ELSE IF TruthyStr(cb.code)
    THEN Return(StrV(cb.code))
    ELSE Throw("No authorization code received", 0, NoStr)

\* A variant that closes the server and keeps the reference to it.
stopCallbackServerKeepsReference(server) == IF server = "null" THEN "null" ELSE "closed"

stopCallbackServer(server) == "null"

\* completeOAuthFlow runs in two stretches: up to the await of
\* waitForCallback, and from the callback (or the timeout) to its return.
FlowEff(e, redirect, port, url, server, pc) ==
    [file |-> e.file, pkce |-> e.pkce, ret |-> e.ret, reqs |-> e.reqs,
     redirect |-> redirect, port |-> port, url |-> url, server |-> server, pc |-> pc]

\* A variant that leaves config.redirectUri as configured.
completeOAuthFlowStartConfigured(f, pkce, redirect, port, url, start, v, s) ==
    LET started == startCallbackServer(port, start) IN
    IF started.ret.status = "error"
    THEN FlowEff(Eff(f, pkce, started.ret, <<>>), redirect, started.port, url,
                 stopCallbackServer(started.server), "idle")
    ELSE
      LET auth == getAuthorizationUrl(pkce, redirect, v, s)
      IN FlowEff(Eff(f, auth.pkce, Return(VoidV), <<>>), redirect, started.port, auth.url,
                 started.server, "waiting")

completeOAuthFlowStart(f, pkce, redirect, port, url, start, v, s) ==
    LET started == startCallbackServer(port, start) IN
    IF started.ret.status = "error"
    THEN FlowEff(Eff(f, pkce, started.ret, <<>>), redirect, started.port, url,
                 stopCallbackServer(started.server), "idle")
    ELSE
      LET bound == RedirectUri(started.ret.val.n)
          auth == getAuthorizationUrl(pkce, bound, v, s)
      IN FlowEff(Eff(f, auth.pkce, Return(VoidV), <<>>), bound, started.port, auth.url,
                 started.server, "waiting")

\* A variant that stops the server after the exchange instead of in a
\* finally block.
completeOAuthFlowFinishNoFinally(f, pkce, redirect, port, url, server, t, cb, resp, w) ==
    LET authCode == waitForCallback(server, cb) IN
    IF authCode.status = "error"
    THEN FlowEff(Eff(f, pkce, authCode, <<>>), redirect, port, url, server, "idle")
    ELSE LET e == exchangeCodeForTokens(f, pkce, redirect, t, authCode.val.s, resp, w) IN
         FlowEff(e, redirect, port, url,
                 IF e.ret.status = "error" THEN server ELSE stopCallbackServer(server),
                 "idle")

completeOAuthFlowFinish(f, pkce, redirect, port, url, server, t, cb, resp, w) ==
    LET authCode == waitForCallback(server, cb) IN
    IF authCode.status = "error"
    THEN FlowEff(Eff(f, pkce, authCode, <<>>), redirect, port, url,
                 stopCallbackServer(server), "idle")
    ELSE FlowEff(exchangeCodeForTokens(f, pkce, redirect, t, authCode.val.s, resp, w),
                 redirect, port, url, stopCallbackServer(server), "idle")

\* ---------------------------------------------------------------- state ----
VARIABLES
    tokenFile,        \* the file at TokenStorage.tokenFilePath
    currentPKCE,      \* OAuthManager.currentPKCE
    redirectUri,      \* OAuthManager.config.redirectUri
    callbackServer,   \* OAuthManager.callbackServer
    callbackPort,     \* OAuthManager.callbackPort
    now,              \* Math.floor(Date.now() / 1000)
    authUrl,          \* the URL the latest getAuthorizationUrl returned
    flowPc,           \* where completeOAuthFlow stands: "idle" or "waiting"
    last,             \* the latest call: method, completion, requests sent
    probe,            \* the latest direct call of a TokenStorage expiry method
    occupied,         \* the ports other processes listen on
    wait,             \* the promise of waitForCallback and its 5 minute timer
    served,           \* the requests the callback server got, with the status sent
    disk,             \* the config directory and the token file, as the file system has them
    machine,          \* `${os.hostname()}-${os.userInfo().username}` of the process
    encryptionKey,    \* TokenStorage.encryptionKey
    saved,            \* the latest saveTokens that completed, while its file stands
    client,           \* the GoogleTasksClient operation in progress
    limiter,          \* one rate limiter: its closure, the clock and its callers
    suspended         \* the call of the manager that awaits the token endpoint

vars == <<tokenFile, currentPKCE, redirectUri, callbackServer, callbackPort,
          now, authUrl, flowPc, last, probe, occupied, wait, served,
          disk, machine, encryptionKey, saved, client, limiter, suspended>>

\* TokenStorage seen on the disk.
storeVars == <<disk, machine, encryptionKey, saved>>

\* The callback server seen request by request.
listenerVars == <<occupied, wait, served>>

\* GoogleTasksClient seen call by call.
clientVars == <<client>>

\* createRateLimiter seen call by call.
limiterVars == <<limiter>>

\* A call of the manager seen across its await of fetch().
raceVars == <<suspended>>

\* No call is suspended on its token request.
NotSuspended ==
    [op |-> "none", req |-> TokenRequest("none", NoStr, NoStr, NoStr, NoRedirect),
     existingTokens |-> NullTokens]

\* Date.now() in ms when the limiter is created, and the callers of it.
Epoch == 1000
Callers == {"c1", "c2"}
NotCalling == [pc |-> "out", calledAt |-> 0, wake |-> 0]

\* createRateLimiter(): lastRequestTime = 0, nobody calling, nobody admitted.
LimiterStart ==
    [lastRequestTime |-> 0, clock |-> Epoch, calls |-> 0,
     callers |-> [c \in Callers |-> NotCalling], admitted |-> <<>>]

\* No invocation of the API yet.
NoOutcome == [ok |-> FALSE, error |-> [status |-> 0, message |-> NoStr]]

\* No GoogleTasksClient operation in progress.
ClientIdle ==
    [pc |-> "idle", op |-> NoStr, attempt |-> 0, calls |-> 0, waits |-> <<>>,
     tokens |-> VoidV, credentials |-> NoCredentials, outcome |-> NoOutcome,
     batch |-> FALSE, operations |-> <<>>, queue |-> <<>>, results |-> <<>>]

\* The record of a call: resp is the token endpoint's answer when asked.
Obs(op, ret, reqs, resp) ==
    [op |-> op, status |-> ret.status, err |-> ret.err, val |-> ret.val,
     reqs |-> reqs, resp |-> IF reqs = <<>> THEN NoResp ELSE resp]

\* The token file a process may find at start: none, or one it cannot use
\* (left by a crash in mid-write, written under another machine identity,
\* or unreadable).
InitialFiles == {AbsentFile, UnreadableFile, BadJsonFile, BadTagFile}

\* The record of a direct call of updateTokenExpiry, isTokenExpired or
\* saveTokens: the argument as passed, the same object after the call, what
\* the call returned and when it was made; storedAt is the time the record
\* now in the file was saved.
Probe(op, arg, argAfter, ret, at, storedAt) ==
    [op |-> op, arg |-> arg, argAfter |-> argAfter, ret |-> ret, at |-> at,
     storedAt |-> storedAt]

NoProbe == Probe("none", NullTokens, NullTokens, VoidV, NoNum, NoNum)

\* The promise waitForCallback returns: not created, pending, resolved or
\* rejected, with the value or the Error it settled with, and the timer it
\* set: unset, armed, cleared or fired.
NoWait == [state |-> "none", outcome |-> Return(VoidV), timer |-> "unset"]

\* A key: what pbkdf2Sync derived it from.  No key is cached yet.
NoKey == [password |-> NoStr, salt |-> NoStr]

\* The envelope CryptoManager.encrypt returns.  data stands for the
\* AES-256-GCM ciphertext with its tag: what was encrypted, under which key
\* and iv, bound to which additional data.
NoEnvelope ==
    [data |-> [plain |-> <<>>, key |-> NoKey, iv |-> NoStr, aad |-> NoStr],
     iv |-> NoStr, salt |-> NoStr]

\* The token file: whether it exists, whether its content is the JSON of an
\* envelope, the envelope, and its permission bits.
NoFile == [exists |-> FALSE, json |-> FALSE, env |-> NoEnvelope, mode |-> NoStr]

Machines == {"host1-alice", "host2-alice"}

NoSaved == [tokens |-> NullTokens, machine |-> NoStr, byThisStore |-> FALSE, warned |-> FALSE]

\* No config directory, no token file, no key derived, nothing saved.
StoreStart(m) ==
    /\ disk = [dir |-> FALSE, file |-> NoFile]
    /\ machine = m
    /\ encryptionKey = NoKey
    /\ saved = NoSaved

Init ==
    /\ tokenFile \in InitialFiles
    /\ currentPKCE = NoPKCE
    /\ redirectUri = RedirectUri(ConfiguredPort)
    /\ callbackServer = "null"
    /\ callbackPort = PreferredPort
    /\ now = 0
    /\ authUrl = NoUrl
    /\ flowPc = "idle"
    /\ last = Obs("init", Return(VoidV), <<>>, NoResp)
    /\ probe = NoProbe
    /\ occupied = {}
    /\ wait = NoWait
    /\ served = <<>>
    /\ StoreStart("host1-alice")
    /\ client = ClientIdle
    /\ limiter = LimiterStart
    /\ suspended = NotSuspended

\* ------------------------------------------------------------- actions ----
\* The inputs a call consumes: the token endpoint answers only a request that
\* was sent, and the file is written only after a successful answer.
Answers(sends) == IF sends THEN Responses ELSE {NoResp}
Writes(resp) == IF resp.net /\ ResponseOk(resp) THEN WriteOutcomes ELSE {"ok"}

\* The caller issues one call at a time.
Idle == flowPc = "idle"

Apply(op, e, resp) ==
    /\ tokenFile' = e.file
    /\ currentPKCE' = e.pkce
    /\ last' = Obs(op, e.ret, e.reqs, resp)
    /\ UNCHANGED <<probe, listenerVars, storeVars, clientVars, limiterVars, raceVars>>

GetAuthorizationUrl ==
    /\ Idle
    /\ \E v \in Verifiers, s \in StateTokens :
         LET auth == getAuthorizationUrl(currentPKCE, redirectUri, v, s) IN
         /\ currentPKCE' = auth.pkce
         /\ authUrl' = auth.url
         /\ last' = Obs("getAuthorizationUrl", Return(UrlV(auth.url)), <<>>, NoResp)
    /\ UNCHANGED <<tokenFile, redirectUri, callbackServer, callbackPort, now, flowPc, probe,
                   listenerVars, storeVars, clientVars, limiterVars, raceVars>>

\* generatePKCE called on its own: it returns a pair and assigns nothing.
GeneratePKCE ==
    /\ Idle
    /\ \E v \in Verifiers :
         last' = Obs("generatePKCE", Return(PkceV(generatePKCE(v))), <<>>, NoResp)
    /\ UNCHANGED <<tokenFile, currentPKCE, redirectUri, callbackServer, callbackPort,
                   now, authUrl, flowPc, probe, listenerVars, storeVars, clientVars, limiterVars, raceVars>>

ExchangeCodeForTokens ==
    /\ Idle
    /\ \E code \in Codes, resp \in Answers(currentPKCE # NoPKCE) :
       \E w \in Writes(resp) :
         Apply("exchangeCodeForTokens",
               exchangeCodeForTokens(tokenFile, currentPKCE, redirectUri, now, code, resp, w),
               resp)
    /\ UNCHANGED <<redirectUri, callbackServer, callbackPort, now, authUrl, flowPc>>

RefreshAccessToken ==
    /\ Idle
    /\ \E resp \in Answers(refreshAccessToken(tokenFile, currentPKCE, now, NoResp, "ok").reqs # <<>>) :
       \E w \in Writes(resp) :
         Apply("refreshAccessToken",
               refreshAccessToken(tokenFile, currentPKCE, now, resp, w), resp)
    /\ UNCHANGED <<redirectUri, callbackServer, callbackPort, now, authUrl, flowPc>>

\* TokenStorage.loadTokens called on its own.
LoadTokens ==
    /\ Idle
    /\ last' = Obs("loadTokens", loadTokens(tokenFile), <<>>, NoResp)
    /\ UNCHANGED <<tokenFile, currentPKCE, redirectUri, callbackServer,
                   callbackPort, now, authUrl, flowPc, probe, listenerVars, storeVars, clientVars, limiterVars, raceVars>>

IsTokenValid ==
    /\ Idle
    /\ last' = Obs("isTokenValid", isTokenValid(tokenFile, now), <<>>, NoResp)
    /\ UNCHANGED <<tokenFile, currentPKCE, redirectUri, callbackServer,
                   callbackPort, now, authUrl, flowPc, probe, listenerVars, storeVars, clientVars, limiterVars, raceVars>>

GetAuthStatus ==
    /\ Idle
    /\ Apply("getAuthStatus", getAuthStatus(tokenFile, currentPKCE, now), NoResp)
    /\ UNCHANGED <<redirectUri, callbackServer, callbackPort, now, authUrl, flowPc>>

GetValidAccessToken ==
    /\ Idle
    /\ \E resp \in Answers(getValidAccessToken(tokenFile, currentPKCE, now, NoResp, "ok").reqs # <<>>) :
       \E w \in Writes(resp) :
         Apply("getValidAccessToken",
               getValidAccessToken(tokenFile, currentPKCE, now, resp, w), resp)
    /\ UNCHANGED <<redirectUri, callbackServer, callbackPort, now, authUrl, flowPc>>

GetValidTokens ==
    /\ Idle
    /\ \E resp \in Answers(getValidTokens(tokenFile, currentPKCE, now, NoResp, "ok").reqs # <<>>) :
       \E w \in Writes(resp) :
         Apply("getValidTokens",
               getValidTokens(tokenFile, currentPKCE, now, resp, w), resp)
    /\ UNCHANGED <<redirectUri, callbackServer, callbackPort, now, authUrl, flowPc>>

ClearTokens ==
    /\ Idle
    /\ \E u \in UnlinkOutcomes :
         Apply("clearTokens", clearTokens(tokenFile, currentPKCE, u), NoResp)
    /\ UNCHANGED <<redirectUri, callbackServer, callbackPort, now, authUrl, flowPc>>

ApplyFlow(op, e, resp) ==
    /\ Apply(op, e, resp)
    /\ redirectUri' = e.redirect
    /\ callbackPort' = e.port
    /\ authUrl' = e.url
    /\ callbackServer' = e.server
    /\ flowPc' = e.pc

\* completeOAuthFlow is called: it runs until it waits for the callback, or
\* fails to start the server and returns.
CompleteOAuthFlowStart ==
    /\ Idle
    /\ \E start \in StartOutcomes(callbackPort), v \in Verifiers, s \in StateTokens :
         LET e == completeOAuthFlowStart(tokenFile, currentPKCE, redirectUri,
                                         callbackPort, authUrl, start, v, s)
         IN ApplyFlow(IF e.pc = "idle" THEN "completeOAuthFlow" ELSE "completeOAuthFlow:wait",
                      e, NoResp)
    /\ UNCHANGED now

\* The callback or the timeout arrives and completeOAuthFlow runs to its end.
CompleteOAuthFlowFinish ==
    /\ flowPc = "waiting"
    /\ \E cb \in Callbacks :
       \E resp \in Answers(waitForCallback(callbackServer, cb).status = "ok") :
       \E w \in Writes(resp) :
         ApplyFlow("completeOAuthFlow",
                   completeOAuthFlowFinish(tokenFile, currentPKCE, redirectUri, callbackPort,
                                           authUrl, callbackServer, now, cb, resp, w),
                   resp)
    /\ UNCHANGED now

StopCallbackServer ==
    /\ Idle
    /\ callbackServer' = stopCallbackServer(callbackServer)
    /\ last' = Obs("stopCallbackServer", Return(VoidV), <<>>, NoResp)
    /\ UNCHANGED <<tokenFile, currentPKCE, redirectUri, callbackPort, now, authUrl, flowPc,
                   probe, listenerVars, storeVars, clientVars, limiterVars, raceVars>>

\* The clock advances between calls and while a call waits.
Tick ==
    /\ now < MaxTicks * TickStep
    /\ now' = now + TickStep
    /\ last' = Obs("tick", Return(VoidV), <<>>, NoResp)
    /\ UNCHANGED <<tokenFile, currentPKCE, redirectUri, callbackServer,
                   callbackPort, authUrl, flowPc, probe, listenerVars, storeVars, clientVars, limiterVars, raceVars>>

Next ==
    \/ GetAuthorizationUrl
    \/ GeneratePKCE
    \/ ExchangeCodeForTokens
    \/ RefreshAccessToken
    \/ LoadTokens
    \/ IsTokenValid
    \/ GetAuthStatus
    \/ GetValidAccessToken
    \/ GetValidTokens
    \/ ClearTokens
    \/ CompleteOAuthFlowStart
    \/ CompleteOAuthFlowFinish
    \/ StopCallbackServer
    \/ Tick

Spec == Init /\ [][Next]_vars

\* ------------------------------------- TokenStorage expiry, on its own ----
\* updateTokenExpiry and isTokenExpired called directly on records of every
\* shape, and a record saved and asked about as time passes.
\* The clock readings: around the 300 s buffer and around the 3600 s lifetime
\* of the tests.
Instants == {t \in {0, 1, 3000, 3299, 3300, 3350, 3600, 3601} : t <= MaxInstant}

ExpiryLifetimes == {NoNum, 0, 1, buffer, 3600}
ExpiryStamps == {NoNum, 0, 1, buffer, buffer + 1, 3600}
ExpiryArgs ==
    { TokenSet("a1", NoStr, ein, NoStr, eat) :
        ein \in ExpiryLifetimes, eat \in ExpiryStamps }

ExpiryInit ==
    /\ tokenFile = AbsentFile
    /\ currentPKCE = NoPKCE
    /\ redirectUri = RedirectUri(ConfiguredPort)
    /\ callbackServer = "null"
    /\ callbackPort = PreferredPort
    /\ now = 0
    /\ authUrl = NoUrl
    /\ flowPc = "idle"
    /\ last = Obs("init", Return(VoidV), <<>>, NoResp)
    /\ probe = NoProbe
    /\ occupied = {}
    /\ wait = NoWait
    /\ served = <<>>
    /\ StoreStart("host1-alice")
    /\ client = ClientIdle
    /\ limiter = LimiterStart
    /\ suspended = NotSuspended

UpdateTokenExpiry ==
    /\ \E tokens \in ExpiryArgs :
         probe' = Probe("updateTokenExpiry", tokens, updateTokenExpiryArgument(tokens, now),
                        TokV(updateTokenExpiry(tokens, now)), now, probe.storedAt)
    /\ UNCHANGED <<tokenFile, currentPKCE, redirectUri, callbackServer, callbackPort,
                   now, authUrl, flowPc, last, listenerVars, storeVars, clientVars, limiterVars, raceVars>>

\* isTokenExpired on any record, the stored one included.
IsTokenExpired ==
    /\ \E tokens \in ExpiryArgs \cup
                     (IF tokenFile.kind = "good" THEN {tokenFile.tokens} ELSE {}) :
         probe' = Probe("isTokenExpired", tokens, tokens,
                        BoolV(isTokenExpired(tokens, now)), now, probe.storedAt)
    /\ UNCHANGED <<tokenFile, currentPKCE, redirectUri, callbackServer, callbackPort,
                   now, authUrl, flowPc, last, listenerVars, storeVars, clientVars, limiterVars, raceVars>>

\* A response with lifetime ein is given its expiry and saved, as
\* exchangeCodeForTokens and refreshAccessToken do.
StoreRecord ==
    /\ \E ein \in ExpiryLifetimes :
         LET tokens == TokenSet("a1", NoStr, ein, NoStr, NoNum)
             tokensWithExpiry == updateTokenExpiry(tokens, now)
         IN /\ tokenFile' = saveTokens(tokenFile, tokensWithExpiry, "ok").file
            /\ probe' = Probe("saveTokens", tokensWithExpiry, tokensWithExpiry,
                              VoidV, now, now)
    /\ UNCHANGED <<currentPKCE, redirectUri, callbackServer, callbackPort,
                   now, authUrl, flowPc, last, listenerVars, storeVars, clientVars, limiterVars, raceVars>>

ExpiryTick ==
    /\ \E t \in Instants : t > now /\ now' = t
    /\ UNCHANGED <<tokenFile, currentPKCE, redirectUri, callbackServer, callbackPort,
                   authUrl, flowPc, last, probe, listenerVars, storeVars, clientVars, limiterVars, raceVars>>

ExpiryNext ==
    \/ UpdateTokenExpiry
    \/ IsTokenExpired
    \/ StoreRecord
    \/ ExpiryTick

SpecExpiry == ExpiryInit /\ [][ExpiryNext]_vars

\* ------------------------------------- callback server, request by request ----
\* startCallbackServer, waitForCallback and stopCallbackServer called on
\* their own, with the requests and the timeout arriving one at a time.
CallbackPath == "/oauth/callback"

\* A request: the pathname and the query parameters the handler reads, and
\* the state parameter, which it does not read.
Request(path, code, error) ==
    [path |-> path, code |-> code, error |-> error,
     error_description |-> IF error = NoStr THEN NoStr ELSE "user declined",
     state |-> NoStr]

\* The state parameters a redirect carries: one this manager issued, or one
\* it never issued.
RedirectStates == StateTokens \cup {"s0"}

Requests ==
    { Request(CallbackPath, c, e) : c \in Codes \cup {NoStr}, e \in {NoStr, "access_denied"} }
    \cup { Request(p, c, NoStr) : p \in {"/"}, c \in Codes \cup {NoStr} }
    \cup { [Request(CallbackPath, c, NoStr) EXCEPT !.state = st] :
              c \in Codes, st \in RedirectStates }

\* A variant in which a later resolve or reject replaces the outcome.
settleAgain(w, outcome) ==
    IF w.state # "none"
    THEN [w EXCEPT !.state = IF outcome.status = "ok" THEN "resolved" ELSE "rejected",
                   !.outcome = outcome]
    ELSE w

\* resolve and reject act on a pending promise only.
settle(w, outcome) ==
    IF w.state = "pending"
    THEN [w EXCEPT !.state = IF outcome.status = "ok" THEN "resolved" ELSE "rejected",
                   !.outcome = outcome]
    ELSE w

clearTimeout(w) == [w EXCEPT !.timer = IF @ = "armed" THEN "cleared" ELSE @]

\* A variant that reads the query of a request on any path.
requestHandlerAnyPath(w, req) ==
    IF w.state = "none"
    THEN [wait |-> w, status |-> 0]
    ELSE IF TruthyStr(req.error)
    THEN [wait |-> settle(clearTimeout(w),
                          Throw("OAuth error", 0,
                                req.error \o " - " \o req.error_description)),
          status |-> 400]
    ELSE IF TruthyStr(req.code)
    THEN [wait |-> settle(clearTimeout(w), Return(StrV(req.code))), status |-> 200]
    ELSE IF req.path = CallbackPath
    THEN [wait |-> settle(clearTimeout(w),
                          Throw("No authorization code received", 0, NoStr)),
          status |-> 400]
    ELSE [wait |-> w, status |-> 404]

\* A variant that looks for the code before it looks for the error.
requestHandlerCodeFirst(w, req) ==
    IF w.state = "none"
    THEN [wait |-> w, status |-> 0]
    ELSE IF req.path = CallbackPath
    THEN IF TruthyStr(req.code)
         THEN [wait |-> settle(clearTimeout(w), Return(StrV(req.code))), status |-> 200]
         ELSE IF TruthyStr(req.error)
         THEN [wait |-> settle(clearTimeout(w),
                               Throw("OAuth error", 0,
                                     req.error \o " - " \o req.error_description)),
               status |-> 400]
         ELSE [wait |-> settle(clearTimeout(w),
                               Throw("No authorization code received", 0, NoStr)),
               status |-> 400]
    ELSE [wait |-> w, status |-> 404]

\* The 'request' listener waitForCallback puts on the server: the promise
\* as it leaves it and the status it writes (0: nobody listens for
\* 'request', nothing is written).
requestHandler(w, req) ==
    IF w.state = "none"
    THEN [wait |-> w, status |-> 0]
    ELSE IF req.path = CallbackPath
    THEN IF TruthyStr(req.error)
         THEN [wait |-> settle(clearTimeout(w),
                               Throw("OAuth error", 0,
                                     req.error \o " - " \o req.error_description)),
               status |-> 400]
         ELSE IF TruthyStr(req.code)
         THEN [wait |-> settle(clearTimeout(w), Return(StrV(req.code))), status |-> 200]
         ELSE [wait |-> settle(clearTimeout(w),
                               Throw("No authorization code received", 0, NoStr)),
               status |-> 400]
    ELSE [wait |-> w, status |-> 404]

\* The setTimeout callback.
timeoutHandler(w) ==
    settle([w EXCEPT !.timer = "fired"], Throw("OAuth callback timeout", 0, NoStr))

\* The EADDRINUSE errors listen meets from port on: the ports taken in a row.
Busy(port, occ) ==
    CHOOSE k \in 0..Cardinality(occ) :
      /\ \A j \in 0..(k - 1) : (port + j) \in occ
      /\ (port + k) \notin occ

OccupiablePorts == PreferredPort..(PreferredPort + MaxPortBumps - 1)

ListenerInit ==
    /\ tokenFile = AbsentFile
    /\ currentPKCE = NoPKCE
    /\ redirectUri = RedirectUri(ConfiguredPort)
    /\ callbackServer = "null"
    /\ callbackPort = PreferredPort
    /\ now = 0
    /\ authUrl = NoUrl
    /\ flowPc = "idle"
    /\ last = Obs("init", Return(VoidV), <<>>, NoResp)
    /\ probe = NoProbe
    /\ occupied \in SUBSET OccupiablePorts
    /\ wait = NoWait
    /\ served = <<>>
    /\ StoreStart("host1-alice")
    /\ client = ClientIdle
    /\ limiter = LimiterStart
    /\ suspended = NotSuspended

\* The variables the callback server does not touch.
listenerFrame ==
    <<tokenFile, currentPKCE, redirectUri, now, authUrl, flowPc, probe, storeVars,
      clientVars, limiterVars, raceVars>>

\* The driver starts a server when it holds none and no wait is pending.
StartCallbackServer ==
    /\ callbackServer = "null"
    /\ wait.state # "pending"
    /\ \E fail \in BOOLEAN :
         LET started == startCallbackServer(callbackPort,
                                            [busy |-> Busy(callbackPort, occupied),
                                             fail |-> fail])
         IN /\ callbackServer' = started.server
            /\ callbackPort' = started.port
            /\ last' = Obs("startCallbackServer", started.ret, <<>>, NoResp)
    /\ wait' = NoWait
    /\ UNCHANGED <<listenerFrame, occupied, served>>

\* waitForCallback is called, once for a server.
WaitForCallback ==
    /\ wait.state = "none"
    /\ IF callbackServer = "null"
       THEN /\ last' = Obs("waitForCallback", Throw("Callback server not started", 0, NoStr),
                           <<>>, NoResp)
            /\ wait' = wait
       ELSE /\ last' = Obs("waitForCallback", Return(VoidV), <<>>, NoResp)
            /\ wait' = [state |-> "pending", outcome |-> Return(VoidV), timer |-> "armed"]
    /\ UNCHANGED <<listenerFrame, callbackServer, callbackPort, occupied, served>>

\* A request reaches the listening server.
OnRequest ==
    /\ callbackServer = "listening"
    /\ Len(served) < MaxRequests
    /\ \E req \in Requests :
         LET handled == requestHandler(wait, req) IN
         /\ wait' = handled.wait
         /\ served' = Append(served, [req |-> req, status |-> handled.status])
    /\ last' = Obs("request", Return(VoidV), <<>>, NoResp)
    /\ UNCHANGED <<listenerFrame, callbackServer, callbackPort, occupied>>

\* The 5 minutes pass.
OnTimeout ==
    /\ wait.timer = "armed"
    /\ wait' = timeoutHandler(wait)
    /\ last' = Obs("timeout", Return(VoidV), <<>>, NoResp)
    /\ UNCHANGED <<listenerFrame, callbackServer, callbackPort, occupied, served>>

ListenerNext ==
    \/ GetAuthorizationUrl
    \/ StartCallbackServer
    \/ WaitForCallback
    \/ OnRequest
    \/ OnTimeout
    \/ StopCallbackServer

SpecListener == ListenerInit /\ [][ListenerNext]_vars

\* ------------------------------------------- TokenStorage, on the disk ----
\* saveTokens, loadTokens, clearTokens and hasTokens with the encryption,
\* the JSON and the permission bits spelled out, across restarts of the
\* process.
AppSalt == "google-tasks-mcp-salt"

\* pbkdf2Sync is a function of the password and the salt.
deriveKey(password, salt) == [password |-> password, salt |-> salt]

getEncryptionKey(cached, m) == IF cached # NoKey THEN cached ELSE deriveKey(m, AppSalt)

\* JSON.stringify leaves out the members whose value is undefined;
\* JSON.parse yields an object without them.
Defined(tokens, k) ==
    IF k \in {"expires_in", "expires_at"} THEN tokens[k] # NoNum ELSE tokens[k] # NoStr

\* A variant that leaves out every member whose value is falsy.
stringifyTruthy(tokens) ==
    [k \in {m \in DOMAIN tokens :
              IF m \in {"expires_in", "expires_at"}
              THEN TruthyNum(tokens[m]) ELSE TruthyStr(tokens[m])} |-> tokens[k]]

stringify(tokens) ==
    [k \in {m \in DOMAIN tokens : Defined(tokens, m)} |-> tokens[k]]

parse(text) ==
    [k \in DOMAIN NullTokens |-> IF k \in DOMAIN text THEN text[k] ELSE NullTokens[k]]

\* iv and salt are the random bytes encrypt draws.
IVs == {"iv1", "iv2"}
Salts == {"salt1"}

encrypt(data, key, iv, salt) ==
    [data |-> [plain |-> data, key |-> key, iv |-> iv, aad |-> salt],
     iv |-> iv, salt |-> salt]

\* decipher.final() throws unless key, iv and additional data are those of
\* the encryption.
decrypt(encryptedData, key) ==
    IF /\ encryptedData.data.key = key
       /\ encryptedData.data.iv = encryptedData.iv
       /\ encryptedData.data.aad = encryptedData.salt
    THEN Return(encryptedData.data.plain)
    ELSE Throw("Unsupported state or unable to authenticate data", 0, NoStr)

\* mk is what fs.mkdir does when the directory is missing.
ensureConfigDir(d, mk) ==
    IF d.dir
    THEN [disk |-> d, ret |-> Return(VoidV)]
    ELSE IF mk = "ok"
    THEN [disk |-> [d EXCEPT !.dir = TRUE], ret |-> Return(VoidV)]
    ELSE [disk |-> d, ret |-> Throw("mkdir", 0, "EACCES")]

\* A variant that never calls chmod.
setSecurePermissionsSkipped(file, ch) == [file |-> file, warned |-> ch # "ok"]

\* ch is what fs.chmod does; a failure is logged and swallowed.
setSecurePermissions(file, ch) ==
    IF ch = "ok"
    THEN [file |-> [file EXCEPT !.mode = "0600"], warned |-> FALSE]
    ELSE [file |-> file, warned |-> TRUE]

\* fs.writeFile(path, content, {mode: 0o600}): the mode is applied only to a
\* file it creates.
writeFile(file, env, w) ==
    LET mode == IF file.exists THEN file.mode ELSE "0600" IN
    CASE w = "ok" -> [exists |-> TRUE, json |-> TRUE, env |-> env, mode |-> mode]
      [] w = "open_fail" -> file
      [] OTHER -> [exists |-> TRUE, json |-> FALSE, env |-> NoEnvelope, mode |-> mode]

saveTokensToDisk(d, cached, m, tokens, iv, salt, mk, w, ch) ==
    LET ensured == ensureConfigDir(d, mk)
        key == getEncryptionKey(cached, m)
        encrypted == encrypt(stringify(tokens), key, iv, salt)
        written == writeFile(ensured.disk.file, encrypted, w)
        secured == setSecurePermissions(written, ch)
    IN
    IF ensured.ret.status = "error"
    THEN [disk |-> d, key |-> cached, ret |-> ensured.ret, warned |-> FALSE]
    ELSE IF w # "ok"
    THEN [disk |-> [ensured.disk EXCEPT !.file = written], key |-> key,
          ret |-> Throw("writeFile", 0, IF w = "open_fail" THEN "EACCES" ELSE "ENOSPC"),
          warned |-> FALSE]
    ELSE [disk |-> [ensured.disk EXCEPT !.file = secured.file], key |-> key,
          ret |-> Return(VoidV), warned |-> secured.warned]

loadTokensFromDisk(d, cached, m) ==
    IF ~d.file.exists
    THEN [key |-> cached, ret |-> Return(NullV)]
    ELSE IF ~d.file.json
    THEN [key |-> cached, ret |-> Throw("Failed to load tokens", 0, "SyntaxError")]
    ELSE
      LET key == getEncryptionKey(cached, m)
          decryptedData == decrypt(d.file.env, key)
      IN IF decryptedData.status = "error"
         THEN [key |-> key, ret |-> Throw("Failed to load tokens", 0, decryptedData.err.msg)]
         ELSE [key |-> key, ret |-> Return(TokV(parse(decryptedData.val)))]

\* A variant that reports a missing file as a failure too.
clearTokensOnDiskStrict(d, u) ==
    IF ~d.file.exists
    THEN [disk |-> d, ret |-> Throw("Failed to clear tokens", 0, "ENOENT")]
    ELSE IF u = "ok"
    THEN [disk |-> [d EXCEPT !.file = NoFile], ret |-> Return(VoidV)]
    ELSE [disk |-> d, ret |-> Throw("Failed to clear tokens", 0, "EPERM")]

\* u is what fs.unlink does on an existing file.
clearTokensOnDisk(d, u) ==
    IF ~d.file.exists
    THEN [disk |-> d, ret |-> Return(VoidV)]
    ELSE IF u = "ok"
    THEN [disk |-> [d EXCEPT !.file = NoFile], ret |-> Return(VoidV)]
    ELSE [disk |-> d, ret |-> Throw("Failed to clear tokens", 0, "EPERM")]

hasTokensOnDisk(d) == d.file.exists

StoreRecords ==
    { TokenSet("a1", NoStr, NoNum, NoStr, NoNum),
      TokenSet("a1", "r1", 0, "tasks", NoNum),
      TokenSet("a2", "r1", 3600, "tasks", 3600) }

StoreInit ==
    /\ tokenFile = AbsentFile
    /\ currentPKCE = NoPKCE
    /\ redirectUri = RedirectUri(ConfiguredPort)
    /\ callbackServer = "null"
    /\ callbackPort = PreferredPort
    /\ now = 0
    /\ authUrl = NoUrl
    /\ flowPc = "idle"
    /\ last = Obs("init", Return(VoidV), <<>>, NoResp)
    /\ probe = NoProbe
    /\ occupied = {}
    /\ wait = NoWait
    /\ served = <<>>
    /\ \E m \in Machines : StoreStart(m)
    /\ client = ClientIdle
    /\ limiter = LimiterStart
    /\ suspended = NotSuspended

\* The variables TokenStorage does not touch.
storeFrame ==
    <<tokenFile, currentPKCE, redirectUri, callbackServer, callbackPort, now, authUrl,
      flowPc, probe, listenerVars, clientVars, limiterVars, raceVars>>

StoreSave ==
    /\ \E tokens \in StoreRecords, iv \in IVs, salt \in Salts,
          mk \in {"ok", "fail"}, w \in WriteOutcomes, ch \in {"ok", "fail"} :
         LET e == saveTokensToDisk(disk, encryptionKey, machine, tokens, iv, salt, mk, w, ch)
         IN /\ disk' = e.disk
            /\ encryptionKey' = e.key
            /\ last' = Obs("saveTokens", e.ret, <<>>, NoResp)
            /\ saved' = IF e.ret.status = "ok"
                        THEN [tokens |-> tokens, machine |-> machine,
                              byThisStore |-> TRUE, warned |-> e.warned]
                        ELSE IF e.disk.file = disk.file THEN saved ELSE NoSaved
    /\ UNCHANGED <<storeFrame, machine>>

StoreLoad ==
    /\ LET e == loadTokensFromDisk(disk, encryptionKey, machine) IN
         /\ encryptionKey' = e.key
         /\ last' = Obs("loadTokens", e.ret, <<>>, NoResp)
    /\ UNCHANGED <<storeFrame, disk, machine, saved>>

StoreClear ==
    /\ \E u \in UnlinkOutcomes :
         LET e == clearTokensOnDisk(disk, u) IN
         /\ disk' = e.disk
         /\ last' = Obs("clearTokens", e.ret, <<>>, NoResp)
         /\ saved' = IF e.disk.file = disk.file THEN saved ELSE NoSaved
    /\ UNCHANGED <<storeFrame, machine, encryptionKey>>

StoreHas ==
    /\ last' = Obs("hasTokens", Return(BoolV(hasTokensOnDisk(disk))), <<>>, NoResp)
    /\ UNCHANGED <<storeFrame, storeVars>>

\* The process ends and another starts, on this machine and user or on
\* another, and constructs a TokenStorage.
StoreRestart ==
    /\ \E m \in Machines : machine' = m
    /\ encryptionKey' = NoKey
    /\ saved' = [saved EXCEPT !.byThisStore = FALSE]
    /\ last' = Obs("restart", Return(VoidV), <<>>, NoResp)
    /\ UNCHANGED <<storeFrame, disk>>

\* The user or another program changes the permission bits of the file.
OtherChmod ==
    /\ disk.file.exists
    /\ disk.file.mode # "0644"
    /\ disk' = [disk EXCEPT !.file.mode = "0644"]
    /\ last' = Obs("chmod", Return(VoidV), <<>>, NoResp)
    /\ UNCHANGED <<storeFrame, machine, encryptionKey, saved>>

StoreNext ==
    \/ StoreSave
    \/ StoreLoad
    \/ StoreClear
    \/ StoreHas
    \/ StoreRestart
    \/ OtherChmod

SpecStore == StoreInit /\ [][StoreNext]_vars

\* -------------------------------------------------------------- claims ----
\* The stored record, before a call, is absent or one isTokenExpired reports
\* as expired.
StoredAbsentOrExpired ==
    \/ tokenFile.kind = "absent"
    \/ tokenFile.kind = "good" /\ isTokenExpired(tokenFile.tokens, now)

RefreshFailedMsg == "Token refresh failed. Re-authentication required."
NoRefreshTokenMsg == "No refresh token available. Re-authentication required."
NoChallengeMsg == "No PKCE challenge found. Must call getAuthorizationUrl() first."

\* The call just made sent exactly one refresh request, which was answered
\* with a success status.
RefreshAnswered(l) ==
    /\ Len(l.reqs) = 1
    /\ l.reqs[1].grant_type = "refresh_token"
    /\ l.resp.net
    /\ ResponseOk(l.resp)

\* C1: getValidAccessToken, called when the stored record is absent or
\* expired, either returns the access token of a successful refresh response
\* or fails with 'Token refresh failed. Re-authentication required.'; it
\* never returns the stored token of an expired record.
C1_NoExpiredFallback ==
    [][ (last'.op = "getValidAccessToken" /\ StoredAbsentOrExpired) =>
          \/ /\ last'.status = "ok"
             /\ RefreshAnswered(last')
             /\ last'.val.kind = "string"
             /\ last'.val.s = last'.resp.body.access_token
          \/ /\ last'.status = "error"
             /\ last'.err.msg = RefreshFailedMsg ]_vars

\* An expired record with a refresh token was stored, the refresh request was
\* refused, and getValidAccessToken failed.
C1_Witness ==
    /\ last.op = "getValidAccessToken"
    /\ last.status = "error"
    /\ last.err.msg = RefreshFailedMsg
    /\ Len(last.reqs) = 1
    /\ tokenFile.kind = "good"
    /\ isTokenExpired(tokenFile.tokens, now)

\* A refresh, direct or on demand, succeeded in the call just made.
RefreshSucceeded(l) ==
    /\ l.op \in {"refreshAccessToken", "getValidAccessToken", "getValidTokens"}
    /\ l.status = "ok"
    /\ l.val.kind \in {"tokens", "string"}
    /\ RefreshAnswered(l)

\* C2: after a successful refresh the persisted refresh token is the one of
\* the response when it has one, and otherwise the one stored before; so a
\* record with a refresh token still has one after the refresh.
C2_RefreshTokenCarried ==
    [][ RefreshSucceeded(last') =>
          /\ tokenFile'.kind = "good"
          /\ tokenFile'.tokens.refresh_token =
               IF last'.resp.body.refresh_token # NoStr
               THEN last'.resp.body.refresh_token
               ELSE tokenFile.tokens.refresh_token
          /\ tokenFile'.tokens.refresh_token # NoStr ]_vars

\* A refresh whose response had no refresh token succeeded.
C2_Witness ==
    /\ last.op = "refreshAccessToken"
    /\ last.status = "ok"
    /\ RefreshAnswered(last)
    /\ last.resp.body.refresh_token = NoStr
    /\ tokenFile.kind = "good"
    /\ tokenFile.tokens.refresh_token \in RefreshTokens

\* C3: exchangeCodeForTokens with no pending challenge fails with the
\* 'No PKCE challenge found' error, sends no request and leaves the token
\* file as it was.
C3_ExchangeNeedsChallenge ==
    [][ (last'.op = "exchangeCodeForTokens" /\ currentPKCE = NoPKCE) =>
          /\ last'.status = "error"
          /\ last'.err.msg = NoChallengeMsg
          /\ last'.reqs = <<>>
          /\ tokenFile' = tokenFile ]_vars

\* An exchange failed for want of a challenge while a record was stored.
C3_Witness ==
    /\ last.op = "exchangeCodeForTokens"
    /\ last.err.msg = NoChallengeMsg
    /\ tokenFile.kind = "good"

\* The calls that create a challenge.
Builds == {"getAuthorizationUrl", "completeOAuthFlow:wait"}

\* C4: a successful exchange leaves no challenge pending; no call other than
\* one that builds an authorization URL makes one pending again; and an
\* exchange made with none pending fails.
C4_ChallengeConsumedOnce ==
    [][ /\ (last'.op \in {"exchangeCodeForTokens", "completeOAuthFlow"} /\ last'.status = "ok")
            => currentPKCE' = NoPKCE
        /\ (currentPKCE = NoPKCE /\ last'.op \notin Builds)
            => /\ currentPKCE' = NoPKCE
               /\ last'.op = "exchangeCodeForTokens" => last'.status = "error" ]_vars

\* An exchange has just succeeded.
C4_Witness ==
    /\ last.op = "exchangeCodeForTokens"
    /\ last.status = "ok"
    /\ last.val.kind = "tokens"
    /\ currentPKCE = NoPKCE

\* C5: the code_verifier of every authorization_code request hashes to the
\* code_challenge of the most recently built authorization URL.
C5_LatestVerifierSent ==
    \A i \in 1..Len(last.reqs) :
      last.reqs[i].grant_type = "authorization_code" =>
        generateSHA256Hash(last.reqs[i].code_verifier) = authUrl.code_challenge

\* An exchange sent its request, carrying the verifier whose challenge is in
\* the latest authorization URL.
C5_Witness ==
    /\ last.op = "exchangeCodeForTokens"
    /\ Len(last.reqs) = 1
    /\ last.reqs[1].code_verifier = "v2"
    /\ authUrl.code_challenge = generateSHA256Hash("v2")

\* The stored record, before a call, is absent or has no refresh token.
NoStoredRefreshToken ==
    \/ tokenFile.kind = "absent"
    \/ tokenFile.kind = "good" /\ tokenFile.tokens.refresh_token = NoStr

\* C6: refreshAccessToken with no stored record, or a record without a
\* refresh token, fails with 'No refresh token available. Re-authentication
\* required.', sends no request and leaves the token file as it was.
C6_RefreshNeedsToken ==
    [][ (last'.op = "refreshAccessToken" /\ NoStoredRefreshToken) =>
          /\ last'.status = "error"
          /\ last'.err.msg = NoRefreshTokenMsg
          /\ last'.reqs = <<>>
          /\ tokenFile' = tokenFile ]_vars

\* A refresh failed on a stored record that has no refresh token.
C6_Witness ==
    /\ last.op = "refreshAccessToken"
    /\ last.err.msg = NoRefreshTokenMsg
    /\ tokenFile.kind = "good"
    /\ tokenFile.tokens.refresh_token = NoStr

\* C7: when the token endpoint answers an exchange or a refresh with a
\* non-success status, the call fails with an error carrying that status and
\* the response body, and the token file is what it was before the call.
C7_HttpErrorSurfaced ==
    [][ ( /\ last'.op \in {"exchangeCodeForTokens", "refreshAccessToken"}
          /\ last'.reqs # <<>>
          /\ last'.resp.net
          /\ ~ResponseOk(last'.resp) ) =>
          /\ last'.status = "error"
          /\ last'.err.msg \in {"Token exchange failed", "Token refresh failed"}
          /\ last'.err.status = last'.resp.status
          /\ last'.err.text = last'.resp.text
          /\ tokenFile' = tokenFile ]_vars

\* An exchange was answered 500 while a record was stored.
C7_Witness ==
    /\ last.op = "exchangeCodeForTokens"
    /\ last.err.msg = "Token exchange failed"
    /\ last.err.status = 500
    /\ tokenFile.kind = "good"

\* C8: with a token file that is not valid JSON or does not decrypt,
\* isTokenValid, getAuthStatus, getValidAccessToken and getValidTokens fail
\* with an error and leave the file as it is.
C8_IntegrityErrorsSurface ==
    [][ ( /\ tokenFile.kind \in {"badjson", "badtag"}
          /\ last'.op \in {"isTokenValid", "getAuthStatus",
                           "getValidAccessToken", "getValidTokens"} ) =>
          /\ last'.status = "error"
          /\ last'.err.msg = "Failed to load tokens"
          /\ tokenFile' = tokenFile ]_vars

\* getValidTokens failed on a file that does not decrypt.
C8_Witness ==
    /\ tokenFile.kind = "badtag"
    /\ last.op = "getValidTokens"
    /\ last.status = "error"

\* C9: loadTokens returns null exactly when the file does not exist, and
\* fails with an error, never null, for an unreadable file, for content that
\* is not JSON and for an envelope that does not decrypt.
C9_AbsentOnlyWhenNoFile ==
    last.op = "loadTokens" =>
      /\ (last.status = "ok" /\ last.val.kind = "null") <=> (tokenFile.kind = "absent")
      /\ tokenFile.kind \in CorruptKinds => last.status = "error"

\* loadTokens failed on an unreadable file.
C9_Witness ==
    /\ last.op = "loadTokens"
    /\ tokenFile.kind = "unreadable"
    /\ last.status = "error"

\* C10: an existing token file is removed by clearTokens and by no other call.
C10_OnlyLogoutRemoves ==
    [][ (tokenFile.kind # "absent" /\ tokenFile'.kind = "absent") =>
          last'.op = "clearTokens" ]_vars

\* A refresh was answered with success, the write of the new record failed,
\* and the file is still there.
C10_Witness ==
    /\ last.op = "refreshAccessToken"
    /\ last.status = "error"
    /\ RefreshAnswered(last)
    /\ tokenFile.kind = "badjson"


\* The calls that exchange an authorization code.
Exchanges == {"exchangeCodeForTokens", "completeOAuthFlow"}

\* C11: a record comes to exist where none was only by an exchange that
\* succeeded; refreshAccessToken, getValidAccessToken, getValidTokens,
\* isTokenValid and getAuthStatus leave an empty store empty.
C11_OnlyExchangeCreates ==
    [][ /\ (tokenFile.kind # "good" /\ tokenFile'.kind = "good")
            => (last'.op \in Exchanges /\ last'.status = "ok")
        /\ ( /\ tokenFile.kind = "absent"
             /\ last'.op \in {"refreshAccessToken", "getValidAccessToken",
                              "getValidTokens", "isTokenValid", "getAuthStatus"} )
            => tokenFile' = tokenFile ]_vars

\* getValidTokens was called on an empty store, returned null and left the
\* store empty.
C11_Witness ==
    /\ last.op = "getValidTokens"
    /\ last.status = "ok"
    /\ last.val.kind = "null"
    /\ tokenFile.kind = "absent"


\* The call just made was an exchange or a refresh that persisted a record.
Persisted(l) ==
    /\ l.op \in {"exchangeCodeForTokens", "refreshAccessToken"}
    /\ l.status = "ok"
    /\ Len(l.reqs) = 1

\* C12: the record an exchange or a refresh persists has its expires_at
\* derived at that moment: the time of the call plus the lifetime the
\* response declares, and none when the response declares no lifetime.
C12_ExpiryDerivedAtStore ==
    Persisted(last) =>
      /\ tokenFile.kind = "good"
      /\ tokenFile.tokens.expires_at =
           IF last.resp.body.expires_in # NoNum
           THEN now + last.resp.body.expires_in
           ELSE NoNum


\* The call just made asked isTokenExpired about the record in the file,
\* which was saved with a declared lifetime.
AskedAboutStored ==
    /\ probe.op = "isTokenExpired"
    /\ tokenFile.kind = "good"
    /\ probe.arg = tokenFile.tokens
    /\ tokenFile.tokens.expires_in # NoNum

\* C13: a record saved at T0 with lifetime L >= 0 is reported expired at
\* time t exactly when t + 300 >= T0 + L.
C13_ExpiresWithBuffer ==
    AskedAboutStored =>
      probe.ret.b = (probe.at + buffer >= probe.storedAt + tokenFile.tokens.expires_in)

\* C14: isTokenExpired returns true exactly when expires_at is set and is
\* at most now + 300.
C14_ExpiredIffStampWithinBuffer ==
    probe.op = "isTokenExpired" =>
      probe.ret.b = (probe.arg.expires_at # NoNum /\ probe.arg.expires_at <= probe.at + buffer)

\* C15: updateTokenExpiry returns a record whose expires_at is now plus
\* expires_in when expires_in is present, and returns the record it was given
\* when expires_in is absent.
C15_ExpiryComputed ==
    probe.op = "updateTokenExpiry" =>
      IF probe.arg.expires_in # NoNum
      THEN probe.ret.tokens.expires_at = probe.at + probe.arg.expires_in
      ELSE probe.ret.tokens = probe.arg

\* C16: updateTokenExpiry leaves the record it was passed as it was.
C16_ArgumentUntouched ==
    probe.op = "updateTokenExpiry" => probe.argAfter = probe.arg


\* The calls that fetch a record on demand.
OnDemand == {"getValidAccessToken", "getValidTokens"}

\* The stored record, before a call, is one isTokenValid reports as valid.
StoredValid == tokenFile.kind = "good" /\ ~isTokenExpired(tokenFile.tokens, now)

\* C17: exchangeCodeForTokens and refreshAccessToken send at most one request
\* to the token endpoint; getValidAccessToken and getValidTokens send none
\* when the stored record is valid and otherwise at most one, a refresh,
\* whether that request fails or not.
C17_NoRetry ==
    [][ /\ last'.op \in {"exchangeCodeForTokens", "refreshAccessToken"} \cup OnDemand
            => Len(last'.reqs) <= 1
        /\ (last'.op \in OnDemand /\ StoredValid) => last'.reqs = <<>>
        /\ (last'.op \in OnDemand /\ last'.reqs # <<>>)
            => last'.reqs[1].grant_type = "refresh_token" ]_vars

\* getValidTokens sent one refresh request, the token endpoint refused it,
\* and the call returned null.
C17_Witness ==
    /\ last.op = "getValidTokens"
    /\ Len(last.reqs) = 1
    /\ last.resp.net
    /\ ~ResponseOk(last.resp)
    /\ last.val.kind = "null"


NoTokensMsg == "No tokens available. Authentication required."

\* getValidAccessToken failed because no valid record could be had.
NoValidRecord(ret) ==
    ret.status = "error" /\ ret.err.msg \in {RefreshFailedMsg, NoTokensMsg}

\* C18: from the present store and clock and for every answer of the token
\* endpoint and every outcome of the write, getValidTokens returns a record
\* with access token a exactly when getValidAccessToken returns a, returns
\* null exactly when getValidAccessToken fails for want of a valid record,
\* and both send the same requests and leave the same token file and
\* challenge; an error of the store reaches the caller of both.
C18_SameRefreshOnDemand ==
    \A resp \in Responses, w \in WriteOutcomes :
      LET string == getValidAccessToken(tokenFile, currentPKCE, now, resp, w)
          record == getValidTokens(tokenFile, currentPKCE, now, resp, w)
      IN /\ record.file = string.file
         /\ record.pkce = string.pkce
         /\ record.reqs = string.reqs
         /\ \A a \in AccessTokens :
              ( /\ record.ret.status = "ok"
                /\ record.ret.val.kind = "tokens"
                /\ record.ret.val.tokens.access_token = a )
              <=> string.ret = Return(StrV(a))
         /\ record.ret = Return(NullV) <=> NoValidRecord(string.ret)
         /\ record.ret.status = "error" <=>
              (string.ret.status = "error" /\ ~NoValidRecord(string.ret))
         /\ record.ret.status = "error" => record.ret = string.ret

\* An expired record with a refresh token is stored and getValidTokens has
\* just returned null for it: a further call may find the refresh granted
\* or refused.
C18_Witness ==
    /\ last.op = "getValidTokens"
    /\ last.val.kind = "null"
    /\ Len(last.reqs) = 1
    /\ tokenFile.kind = "good"
    /\ isTokenExpired(tokenFile.tokens, now)
    /\ tokenFile.tokens.refresh_token # NoStr


\* C19: getAuthStatus sends no request to the token endpoint and leaves the
\* token file and the pending challenge as they were, whatever is stored;
\* it reports hasValidToken only together with isAuthenticated.
C19_StatusReadOnly ==
    [][ last'.op = "getAuthStatus" =>
          /\ last'.reqs = <<>>
          /\ tokenFile' = tokenFile
          /\ currentPKCE' = currentPKCE
          /\ (last'.status = "ok" /\ last'.val.hasValidToken)
               => last'.val.isAuthenticated ]_vars

\* getAuthStatus was called on an expired record that has a refresh token,
\* while a challenge was pending, and reported it as present but not valid.
C19_Witness ==
    /\ last.op = "getAuthStatus"
    /\ last.status = "ok"
    /\ last.val.isAuthenticated
    /\ ~last.val.hasValidToken
    /\ tokenFile.kind = "good"
    /\ tokenFile.tokens.refresh_token # NoStr
    /\ isTokenExpired(tokenFile.tokens, now)
    /\ currentPKCE # NoPKCE


\* C20: when completeOAuthFlow has returned or thrown, by whatever path, the
\* callback server is stopped and the manager holds none.
C20_ListenerStoppedAfterFlow ==
    last.op = "completeOAuthFlow" => (callbackServer = "null" /\ flowPc = "idle")

\* completeOAuthFlow received the code and failed in the exchange.
C20_Witness ==
    /\ last.op = "completeOAuthFlow"
    /\ last.status = "error"
    /\ Len(last.reqs) = 1
    /\ callbackServer = "null"


\* The request the step just taken served.
Arrived == served'[Len(served')].req

\* The step just taken is a request on the callback path.
CallbackArrived == last'.op = "request" /\ Arrived.path = CallbackPath

\* The ways a pending wait settles: (a) a callback request with a code
\* resolves it with the code, (b) a callback request with an error rejects
\* it with the error and its description, (c) the timeout rejects it.
SettledByCode ==
    /\ CallbackArrived
    /\ Arrived.code # NoStr
    /\ wait'.outcome = Return(StrV(Arrived.code))

SettledByError ==
    /\ CallbackArrived
    /\ Arrived.error # NoStr
    /\ wait'.outcome = Throw("OAuth error", 0,
                             Arrived.error \o " - " \o Arrived.error_description)

SettledByTimeout ==
    /\ last'.op = "timeout"
    /\ wait'.outcome = Throw("OAuth callback timeout", 0, NoStr)

\* (d) a callback request with neither a code nor an error rejects it.
SettledByEmptyCallback ==
    /\ CallbackArrived
    /\ Arrived.code = NoStr
    /\ Arrived.error = NoStr
    /\ wait'.outcome = Throw("No authorization code received", 0, NoStr)

Settles == wait.state = "pending" /\ wait'.state # "pending"

\* C21 as stated: a pending wait settles in one of the three ways (a), (b),
\* (c) and in no other.
C21_ThreeWays ==
    [][ Settles => (SettledByCode \/ SettledByError \/ SettledByTimeout) ]_vars

\* C21, amended: a wait begun on a server settles in one of four ways and in
\* no other: a callback request with an error rejects it with the error and
\* its description, whether it has a code or not; a callback request with a
\* code and no error resolves it with the code; a callback request with
\* neither rejects it with 'No authorization code received'; the timeout
\* rejects it.  Each of these settles a pending wait, and nothing else does.
\* Called when no server is held, waitForCallback fails at once.
C21_FourWays ==
    [][ /\ Settles =>
             \/ SettledByError
             \/ SettledByCode /\ Arrived.error = NoStr
             \/ SettledByEmptyCallback
             \/ SettledByTimeout
        /\ (wait.state = "pending" /\ (CallbackArrived \/ last'.op = "timeout")) => Settles
        /\ last'.op = "waitForCallback" =>
             IF callbackServer = "null"
             THEN last'.err.msg = "Callback server not started" /\ wait' = wait
             ELSE last'.status = "ok" /\ wait'.state = "pending" /\ wait'.timer = "armed"
      ]_vars

\* A callback request with neither a code nor an error came and the wait
\* was rejected.
C21_Witness ==
    /\ last.op = "request"
    /\ wait.state = "rejected"
    /\ wait.outcome.err.msg = "No authorization code received"
    /\ served[Len(served)].req = Request(CallbackPath, NoStr, NoStr)


FirstFreePort(n) ==
    CHOOSE p \in n..(n + Cardinality(occupied)) :
      p \notin occupied /\ \A q \in n..(p - 1) : q \in occupied

\* C23: when startCallbackServer succeeds, the server listens on the first
\* free port at or above the port it started from, and that port is what the
\* call returns.
C23_ReportsBoundPort ==
    [][ (last'.op = "startCallbackServer" /\ last'.status = "ok") =>
          /\ callbackServer' = "listening"
          /\ callbackPort' = FirstFreePort(callbackPort)
          /\ last'.val = NumV(callbackPort') ]_vars

\* The preferred port was taken and the server was started: it listens on
\* the next port and the call returned that port.
C23_Witness ==
    /\ last.op = "startCallbackServer"
    /\ last.status = "ok"
    /\ PreferredPort \in occupied
    /\ callbackServer = "listening"
    /\ callbackPort = PreferredPort + 1
    /\ last.val = NumV(PreferredPort + 1)


\* C24: stopCallbackServer returns normally whether the manager holds no
\* server (never started, or stopped before) or one that was created or
\* listens; after it the manager holds none; and called when none is held it
\* changes nothing, so a second stop adds nothing to the first.
C24_StopIdempotent ==
    [][ last'.op = "stopCallbackServer" =>
          /\ last'.status = "ok"
          /\ callbackServer' = "null"
          /\ callbackServer = "null" =>
               UNCHANGED <<listenerFrame, callbackServer, callbackPort, listenerVars>> ]_vars

\* A server that had answered a request was stopped.
C24_Witness ==
    /\ last.op = "stopCallbackServer"
    /\ callbackServer = "null"
    /\ Len(served) > 0


\* C25: clearTokens succeeds when the file is absent and then changes
\* nothing, so a second clear adds nothing to the first; after a clear that
\* succeeded loadTokens returns null and hasTokens returns false; a clear
\* that fails found a file, leaves it, and throws 'Failed to clear tokens'.
C25_ClearIdempotent ==
    [][ last'.op = "clearTokens" =>
          /\ ~disk.file.exists => (last'.status = "ok" /\ disk' = disk)
          /\ last'.status = "ok" =>
               /\ loadTokensFromDisk(disk', encryptionKey', machine').ret = Return(NullV)
               /\ ~hasTokensOnDisk(disk')
          /\ last'.status = "error" =>
               /\ disk.file.exists
               /\ disk' = disk
               /\ last'.err.msg = "Failed to clear tokens" ]_vars

\* clearTokens has returned normally, no file is there, and the directory
\* and a derived key show that a record had been saved.
C25_Witness ==
    /\ last.op = "clearTokens"
    /\ last.status = "ok"
    /\ ~disk.file.exists
    /\ disk.dir
    /\ encryptionKey # NoKey


\* A save completed, its file still stands, and the process runs under the
\* machine identity the save ran under.
SavedHere == saved # NoSaved /\ saved.machine = machine

\* C26: loadTokens returns the record the latest completed saveTokens was
\* given, when no save or clear has touched the file since, also when the
\* process was restarted in between, as long as hostname and username are
\* those of the save.
C26_RoundTrip ==
    [][ (last'.op = "loadTokens" /\ SavedHere) =>
          /\ last'.status = "ok"
          /\ last'.val = TokV(saved.tokens) ]_vars

\* A record without refresh token, lifetime and scope was saved, the process
\* was restarted under the same identity, and loadTokens returned the record.
C26_Witness ==
    /\ last.op = "loadTokens"
    /\ last.status = "ok"
    /\ SavedHere
    /\ ~saved.byThisStore
    /\ saved.tokens.refresh_token = NoStr
    /\ last.val = TokV(saved.tokens)


SaveCompleted == last'.op = "saveTokens" /\ last'.status = "ok"

C28_GenerateStoresChallenge ==
    [][ last'.op = "generatePKCE" => currentPKCE' = last'.val.pkce ]_vars

\* C28, amended: generatePKCE returns a verifier with its S256 challenge and
\* leaves the pending challenge and the token file as they were;
\* getAuthorizationUrl, which calls it, makes the pair whose challenge is in
\* the URL the pending one, whatever was pending before; and an exchange
\* sends the verifier of the pair pending when it is called.
C28_UrlStoresChallenge ==
    [][ /\ last'.op = "generatePKCE" =>
             /\ currentPKCE' = currentPKCE
             /\ tokenFile' = tokenFile
             /\ last'.val.pkce.challenge = generateSHA256Hash(last'.val.pkce.verifier)
             /\ last'.val.pkce.method = "S256"
        /\ last'.op = "getAuthorizationUrl" =>
             /\ currentPKCE'.challenge = last'.val.url.code_challenge
             /\ currentPKCE'.challenge = generateSHA256Hash(currentPKCE'.verifier)
             /\ tokenFile' = tokenFile
        /\ (last'.op = "exchangeCodeForTokens" /\ last'.reqs # <<>>) =>
             last'.reqs[1].code_verifier = currentPKCE.verifier ]_vars

\* generatePKCE returned a pair while another was pending; the other is
\* still the pending one.
C28_Witness ==
    /\ last.op = "generatePKCE"
    /\ currentPKCE # NoPKCE
    /\ last.val.pkce # currentPKCE


\* ------------------------------------- GoogleApiErrorHandler ----
MAX_RETRIES == 5
RETRY_DELAYS == <<1000, 2000, 4000, 8000, 16000>>
RATE_LIMIT_CODES == {429, 403}

\* What an API call rejects with: error.response?.status (0 when there is no
\* response) and error.message.
ApiError(status, message) == [status |-> status, message |-> message]
ApiErrors ==
    { ApiError(0, "socket hang up"), ApiError(400, "Bad Request"),
      ApiError(503, "Service Unavailable") }

\* What one invocation of the operation comes to.
ApiOutcomes ==
    { [ok |-> TRUE, error |-> ApiError(0, NoStr)] }
    \cup { [ok |-> FALSE, error |-> e] : e \in ApiErrors }

\* A variant that takes every error for a transient one.
isRetryableErrorAlways(error) == TRUE

isRetryableError(error) ==
    IF error.status = 0
    THEN FALSE
    ELSE \/ error.status >= 500
         \/ error.status \in RATE_LIMIT_CODES
         \/ error.status = 408
         \/ error.status = 409

\* A variant whose fallback past the end of the table is the first delay.
getRetryDelayFirst(attempt) ==
    IF attempt >= Len(RETRY_DELAYS)
    THEN RETRY_DELAYS[1]
    ELSE RETRY_DELAYS[attempt + 1]

\* attempt counts from 0, the tuple from 1.
getRetryDelay(attempt) ==
    IF attempt >= Len(RETRY_DELAYS)
    THEN RETRY_DELAYS[Len(RETRY_DELAYS)]
    ELSE RETRY_DELAYS[attempt + 1]

\* The error has no response.data.error: code and message come from the
\* status and the message.
parseGoogleApiError(error) ==
    [code |-> IF error.status # 0 THEN error.status ELSE 500,
     message |-> IF TruthyStr(error.message) THEN error.message
                 ELSE "Unknown error occurred"]

\* The fixed part of the message; for 400 and the default case the code
\* appends the error's own message.
createUserFriendlyMessage(error) ==
    CASE error.code = 400 -> "Invalid request: "
      [] error.code = 401 -> "Authentication failed. Please re-authenticate."
      [] error.code = 403 ->
           IF error.message = "Rate Limit Exceeded"
           THEN "Rate limit exceeded. Please try again later."
           ELSE "Access denied. Check your permissions."
      [] error.code = 404 -> "The requested resource was not found."
      [] error.code = 409 ->
           "Conflict: The resource has been modified by another request."
      [] error.code = 429 -> "Too many requests. Please wait and try again."
      [] error.code \in {500, 502, 503, 504} ->
           "Google API is temporarily unavailable. Please try again."
      [] OTHER -> "API error"

\* new Error(`${createUserFriendlyMessage(googleError)}${contextMessage}`)
RetryError(error, context) ==
    Throw(createUserFriendlyMessage(parseGoogleApiError(error)),
          parseGoogleApiError(error).code, context)

\* A variant that gives up one attempt early.
executeWithRetryFourTries(attempt, outcome, context) ==
    IF outcome.ok
    THEN [done |-> TRUE, ret |-> Return(VoidV), delay |-> 0]
    ELSE IF ~isRetryableError(outcome.error)
    THEN [done |-> TRUE, ret |-> RetryError(outcome.error, context), delay |-> 0]
    ELSE IF attempt = MAX_RETRIES - 2
    THEN [done |-> TRUE, ret |-> RetryError(outcome.error, context), delay |-> 0]
    ELSE [done |-> FALSE, ret |-> Return(VoidV), delay |-> getRetryDelay(attempt)]

\* One pass of the loop of executeWithRetry at index attempt, the operation
\* coming to outcome: the call is over (done) with ret, or the loop sleeps
\* for delay and goes on.
executeWithRetry(attempt, outcome, context) ==
    IF outcome.ok
    THEN [done |-> TRUE, ret |-> Return(VoidV), delay |-> 0]
    ELSE IF ~isRetryableError(outcome.error)
    THEN [done |-> TRUE, ret |-> RetryError(outcome.error, context), delay |-> 0]
    ELSE IF attempt = MAX_RETRIES - 1
    THEN [done |-> TRUE, ret |-> RetryError(outcome.error, context), delay |-> 0]
    ELSE [done |-> FALSE, ret |-> Return(VoidV), delay |-> getRetryDelay(attempt)]


\* ------------------------------------- GoogleTasksClient, call by call ----
\* The operations that call the API themselves, with the context they hand
\* to executeWithRetry.
SingleOps == {"getTaskLists", "createTask", "updateTask", "deleteTask"}

\* The operations called on their own.
DirectOps == {"getTaskLists", "deleteTask"}

Context(op) ==
    CASE op = "getTaskLists" -> "fetching task lists"
      [] op = "createTask" -> "creating task"
      [] op = "updateTask" -> "updating task"
      [] op = "deleteTask" -> "deleting task"

\* A variant that goes on with whatever getValidTokens returned.
ensureAuthenticatedUnchecked(e) ==
    IF e.ret.status = "error"
    THEN [file |-> e.file, reqs |-> e.reqs, tokens |-> VoidV,
          credentials |-> NoCredentials, ret |-> e.ret]
    ELSE [file |-> e.file, reqs |-> e.reqs, tokens |-> e.ret.val,
          credentials |-> NoCredentials, ret |-> Return(VoidV)]

\* ensureAuthenticated, e being what its call of getValidTokens came to: the
\* file getValidTokens leaves, the requests it sent, the value it returned,
\* the credentials set on the oauth2Client and how ensureAuthenticated
\* completes.
ensureAuthenticated(e) ==
    IF e.ret.status = "error"
    THEN [file |-> e.file, reqs |-> e.reqs, tokens |-> VoidV,
          credentials |-> NoCredentials, ret |-> e.ret]
    ELSE IF e.ret.val.kind = "null"
    THEN [file |-> e.file, reqs |-> e.reqs, tokens |-> e.ret.val,
          credentials |-> NoCredentials,
          ret |-> Throw("Not authenticated. Please authenticate first.", 0, NoStr)]
    ELSE [file |-> e.file, reqs |-> e.reqs, tokens |-> e.ret.val,
          credentials |-> [access_token |-> e.ret.val.tokens.access_token,
                           refresh_token |-> e.ret.val.tokens.refresh_token],
          ret |-> Return(VoidV)]

\* interface BatchOperation: what batchUpdateTasks reads of it.
BatchOperation(operation, title, taskId) ==
    [operation |-> operation, title |-> title, taskId |-> taskId]

BatchOperations ==
    { BatchOperation("insert", "t1", NoStr), BatchOperation("insert", NoStr, NoStr),
      BatchOperation("delete", NoStr, NoStr) }

RECURSIVE SeqsUpTo(_, _)
SeqsUpTo(S, n) ==
    IF n = 0 THEN {<<>>}
    ELSE LET shorter == SeqsUpTo(S, n - 1) IN
         shorter \cup { Append(q, x) : q \in shorter, x \in S }

\* The switch of batchUpdateTasks before it calls an operation: the error it
\* throws, or "" when it goes on to the operation.
batchCheck(o) ==
    CASE o.operation = "insert" ->
           IF ~TruthyStr(o.title) THEN "Task title is required for insert operation" ELSE ""
      [] o.operation = "update" ->
           IF ~TruthyStr(o.taskId) THEN "Task ID is required for update operation" ELSE ""
      [] o.operation = "delete" ->
           IF ~TruthyStr(o.taskId) THEN "Task ID is required for delete operation" ELSE ""
      [] OTHER -> "Unknown operation"

batchCall(o) ==
    CASE o.operation = "insert" -> "createTask"
      [] o.operation = "update" -> "updateTask"
      [] OTHER -> "deleteTask"

\* results.push: success, or the caught error through parseGoogleApiError.
BatchEntry(operation, ret) ==
    IF ret.status = "ok"
    THEN [operation |-> operation, success |-> TRUE,
          error |-> [code |-> 0, message |-> NoStr]]
    ELSE [operation |-> operation, success |-> FALSE,
          error |-> parseGoogleApiError(ApiError(0, ret.err.msg))]

\* A variant in which the first failure ends the batch.
settleOperationStopping(c, ret) ==
    IF c.batch
    THEN [c EXCEPT !.pc = "batch",
                   !.queue = IF ret.status = "ok" THEN Tail(@) ELSE <<>>,
                   !.results = Append(@, BatchEntry(Head(c.queue).operation, ret))]
    ELSE [c EXCEPT !.pc = "idle"]

\* An operation completes with ret: to its caller, or to the try block of
\* batchUpdateTasks, which records it and goes on.
settleOperation(c, ret) ==
    IF c.batch
    THEN [c EXCEPT !.pc = "batch", !.queue = Tail(@),
                   !.results = Append(@, BatchEntry(Head(c.queue).operation, ret))]
    ELSE [c EXCEPT !.pc = "idle"]

ClientFiles ==
    InitialFiles
    \cup { GoodFile(TokenSet("a1", rt, 3600, "tasks", eat)) :
             rt \in {"r1", NoStr}, eat \in {buffer, 3600} }

ClientInit ==
    /\ tokenFile \in ClientFiles
    /\ currentPKCE = NoPKCE
    /\ redirectUri = RedirectUri(ConfiguredPort)
    /\ callbackServer = "null"
    /\ callbackPort = PreferredPort
    /\ now = 0
    /\ authUrl = NoUrl
    /\ flowPc = "idle"
    /\ last = Obs("init", Return(VoidV), <<>>, NoResp)
    /\ probe = NoProbe
    /\ occupied = {}
    /\ wait = NoWait
    /\ served = <<>>
    /\ StoreStart("host1-alice")
    /\ client = ClientIdle
    /\ limiter = LimiterStart
    /\ suspended = NotSuspended

clientFrame ==
    <<currentPKCE, redirectUri, callbackServer, callbackPort, now, authUrl,
      flowPc, probe, listenerVars, storeVars, limiterVars, raceVars>>

\* ensureAuthenticated came to a: the operation op is over, or goes on to
\* executeWithRetry.
Authenticated(c, op, a, resp) ==
    LET c1 == [c EXCEPT !.op = op, !.attempt = 0, !.calls = 0, !.waits = <<>>,
                        !.outcome = NoOutcome,
                        !.tokens = a.tokens, !.credentials = a.credentials]
    IN /\ tokenFile' = a.file
       /\ IF a.ret.status = "error"
          THEN /\ client' = settleOperation(c1, a.ret)
               /\ last' = Obs(op, a.ret, a.reqs, resp)
          ELSE /\ client' = [c1 EXCEPT !.pc = "retry"]
               /\ last' = Obs("ensureAuthenticated", a.ret, a.reqs, resp)

\* What the token endpoint answers a refresh of the client with: every
\* failure, and the successes that keep the refresh token.
ClientAnswers(sends) ==
    { r \in Answers(sends) :
        ResponseOk(r) => (r.body.access_token = "a2" /\ r.body.refresh_token = NoStr) }

\* rateLimiter, ensureAuthenticated and the call of executeWithRetry of the
\* operation op, up to the first invocation of the API.
StartOperation(c, op) ==
    \E resp \in ClientAnswers(getValidTokens(tokenFile, currentPKCE, now, NoResp, "ok").reqs # <<>>) :
      \E w \in Writes(resp) :
        Authenticated(c, op,
                      ensureAuthenticated(getValidTokens(tokenFile, currentPKCE, now, resp, w)),
                      resp)

\* One of the operations is called.
ClientCall ==
    /\ client.pc = "idle"
    /\ \E op \in DirectOps : StartOperation(ClientIdle, op)
    /\ UNCHANGED clientFrame

\* One invocation of the operation inside executeWithRetry.
Attempt ==
    /\ client.pc = "retry"
    /\ \E outcome \in ApiOutcomes :
         LET r == executeWithRetry(client.attempt, outcome, Context(client.op))
             c1 == [client EXCEPT !.calls = @ + 1, !.outcome = outcome]
         IN IF r.done
            THEN /\ client' = settleOperation(c1, r.ret)
                 /\ last' = Obs(client.op, r.ret, <<>>, NoResp)
            ELSE /\ client' = [c1 EXCEPT !.attempt = @ + 1, !.waits = Append(@, r.delay)]
                 /\ last' = last
    /\ UNCHANGED <<tokenFile, clientFrame>>

BatchUpdateTasks ==
    /\ client.pc = "idle"
    /\ \E operations \in SeqsUpTo(BatchOperations, MaxBatch) :
         client' = [ClientIdle EXCEPT !.pc = "batch", !.batch = TRUE,
                                      !.operations = operations, !.queue = operations]
    /\ UNCHANGED <<tokenFile, last, clientFrame>>

\* The loop of batchUpdateTasks takes the next operation.
BatchItem ==
    /\ client.pc = "batch"
    /\ client.queue # <<>>
    /\ LET o == Head(client.queue) IN
       IF batchCheck(o) # ""
       THEN /\ client' = settleOperation(client, Throw(batchCheck(o), 0, NoStr))
            /\ last' = Obs("batchItem", Throw(batchCheck(o), 0, NoStr), <<>>, NoResp)
            /\ UNCHANGED tokenFile
       ELSE StartOperation(client, batchCall(o))
    /\ UNCHANGED clientFrame

\* batchUpdateTasks returns { operations: results }.
BatchReturn ==
    /\ client.pc = "batch"
    /\ client.queue = <<>>
    /\ client' = [client EXCEPT !.pc = "idle"]
    /\ last' = Obs("batchUpdateTasks", Return(BatchV(client.results)), <<>>, NoResp)
    /\ UNCHANGED <<tokenFile, clientFrame>>

\* getRetryDelay called on its own.
GetRetryDelay ==
    /\ client.pc = "idle"
    /\ \E attempt \in 0..MaxAttempt :
         last' = Obs("getRetryDelay", Return(DelayV(attempt, getRetryDelay(attempt))),
                     <<>>, NoResp)
    /\ UNCHANGED <<tokenFile, client, clientFrame>>

ClientNext ==
    \/ ClientCall
    \/ GetRetryDelay
    \/ Attempt
    \/ BatchUpdateTasks
    \/ BatchItem
    \/ BatchReturn

\* The continuation of an awaited call or timer is run by the event loop.
SpecClient == ClientInit /\ [][ClientNext]_vars /\ WF_vars(Attempt)


\* ------------------------------------- claims on GoogleTasksClient ----
NotAuthenticated == "Not authenticated. Please authenticate first."

\* batchUpdateTasks records an operation as failed for want of a record.
RecordedNotAuthenticated(results) ==
    \E i \in 1..Len(results) :
      /\ ~results[i].success
      /\ results[i].error.message = NotAuthenticated

\* C29 as stated: every operation of the client, batchUpdateTasks among
\* them, fails with 'Not authenticated. Please authenticate first.' when
\* getValidTokens returned null to it, and calls the API only with a record.
C29_EveryOperationFails ==
    [][ /\ client'.calls > client.calls => client.tokens.kind = "tokens"
        /\ (last'.op \in SingleOps /\ client'.tokens.kind = "null") =>
             (last'.status = "error" /\ last'.err.msg = NotAuthenticated)
        /\ (last'.op = "batchUpdateTasks"
              /\ RecordedNotAuthenticated(last'.val.operations)) =>
             (last'.status = "error" /\ last'.err.msg = NotAuthenticated) ]_vars

\* C29, amended: the API is called only after getValidTokens returned a
\* record, whose tokens are the credentials of the call; an operation that
\* calls the API itself fails with 'Not authenticated. Please authenticate
\* first.' and calls nothing when getValidTokens returned null;
\* batchUpdateTasks records that failure for the operation of the batch,
\* goes on with the next and returns its results.
C29_NoCallUnauthenticated ==
    [][ /\ client'.calls > client.calls =>
             /\ client.pc = "retry"
             /\ client.tokens.kind = "tokens"
             /\ client.credentials.access_token = client.tokens.tokens.access_token
        /\ (client.pc # "retry" /\ last'.op \in SingleOps \cup {"ensureAuthenticated"}
              /\ client'.tokens.kind = "null") =>
             /\ last'.op \in SingleOps
             /\ last'.status = "error"
             /\ last'.err.msg = NotAuthenticated
             /\ client'.calls = 0
             /\ client'.pc # "retry"
        /\ (client.pc = "batch" /\ client' # client /\ last'.op \in SingleOps
              /\ client'.tokens.kind = "null") =>
             /\ client'.pc = "batch"
             /\ client'.results =
                  Append(client.results,
                         [operation |-> Head(client.queue).operation, success |-> FALSE,
                          error |-> [code |-> 500, message |-> NotAuthenticated]])
        /\ last'.op = "batchUpdateTasks" => last'.status = "ok" ]_vars

\* batchUpdateTasks returned: its first operation was recorded as not
\* authenticated, its second got a record and succeeded.
C29_Witness ==
    /\ last.op = "batchUpdateTasks"
    /\ Len(last.val.operations) = 2
    /\ ~last.val.operations[1].success
    /\ last.val.operations[1].error.message = NotAuthenticated
    /\ last.val.operations[2].success
    /\ client.calls > 0


\* The operation was invoked in this step.
Invoked == client'.calls = client.calls + 1

\* C30: executeWithRetry invokes the operation at most 5 times; an attempt
\* that succeeds ends it with the result, a non-retryable error ends it with
\* a throw and no wait, the 5th retryable failure ends it with a throw, an
\* earlier retryable failure is followed by the delay of that attempt and
\* another attempt; and every call of executeWithRetry comes to an end.
C30_BoundedRetry ==
    /\ [](client.calls <= MAX_RETRIES)
    /\ [][ Invoked =>
             /\ client.pc = "retry"
             /\ client.calls < MAX_RETRIES
             /\ client'.outcome.ok =>
                  /\ client'.pc # "retry"
                  /\ last'.op = client.op /\ last'.status = "ok"
                  /\ client'.waits = client.waits
             /\ (~client'.outcome.ok /\ ~isRetryableError(client'.outcome.error)) =>
                  /\ client'.pc # "retry"
                  /\ last'.op = client.op /\ last'.status = "error"
                  /\ client'.waits = client.waits
             /\ (~client'.outcome.ok /\ isRetryableError(client'.outcome.error)) =>
                  IF client'.calls = MAX_RETRIES
                  THEN /\ client'.pc # "retry"
                       /\ last'.op = client.op /\ last'.status = "error"
                       /\ client'.waits = client.waits
                  ELSE /\ client'.pc = "retry"
                       /\ client'.waits = Append(client.waits, RETRY_DELAYS[client'.calls])
             /\ (client.calls = 0
                   /\ (client'.outcome.ok \/ ~isRetryableError(client'.outcome.error))) =>
                  (client'.calls = 1 /\ client'.pc # "retry") ]_vars
    /\ (client.pc = "retry") ~> (client.pc # "retry")

\* An operation threw after its 5th retryable failure, having slept four
\* times.
C30_Witness ==
    /\ last.op \in SingleOps
    /\ last.status = "error"
    /\ client.pc = "idle"
    /\ client.calls = MAX_RETRIES
    /\ isRetryableError(client.outcome.error)
    /\ client.waits = <<1000, 2000, 4000, 8000>>


\* C31: getRetryDelay(k) is 1000 * 2^k for k = 0..4 and 16000 from 5 on;
\* executeWithRetry sleeps getRetryDelay(k) after failed attempt k before
\* the next attempt; the waits of one call never decrease.
C31_BackoffSchedule ==
    /\ [][ last'.op = "getRetryDelay" =>
             /\ last'.val.attempt <= 4 => last'.val.n = 1000 * 2^(last'.val.attempt)
             /\ last'.val.attempt >= 5 => last'.val.n = 16000 ]_vars
    /\ [][ (Invoked /\ client'.pc = "retry") =>
             client'.waits = Append(client.waits, 1000 * 2^(client.calls)) ]_vars
    /\ [](\A i \in 1..(Len(client.waits) - 1) : client.waits[i] <= client.waits[i + 1])

\* getRetryDelay was asked about an attempt past the table, after an
\* operation that slept four times.
C31_Witness ==
    /\ last.op = "getRetryDelay"
    /\ last.val.attempt >= 5
    /\ Len(client.waits) = 4


\* The validation the batch applies: a title for insert, a taskId for update
\* and delete.
PassesValidation(o) ==
    /\ o.operation = "insert" => TruthyStr(o.title)
    /\ o.operation \in {"update", "delete"} => TruthyStr(o.taskId)

\* The batch records the outcome of an operation in this step.
Recorded == client.pc \in {"batch", "retry"} /\ Len(client'.results) > Len(client.results)

MIN_INTERVAL == 100
ClockStep == 50

\* The entry of the limiter at Date.now() = t: the delay it sleeps, 0 when
\* it does not sleep.
rateLimiter(lastRequestTime, t) ==
    LET timeSinceLastRequest == t - lastRequestTime IN
    IF timeSinceLastRequest < MIN_INTERVAL
    THEN MIN_INTERVAL - timeSinceLastRequest
    ELSE 0

\* lastRequestTime = Date.now(): the caller c is admitted.
admit(l, c, calledAt) ==
    [l EXCEPT !.lastRequestTime = l.clock,
              !.callers[c] = NotCalling,
              !.admitted = Append(@, [caller |-> c, calledAt |-> calledAt, at |-> l.clock])]

limiterFrame ==
    <<tokenFile, currentPKCE, redirectUri, callbackServer, callbackPort, now, authUrl,
      flowPc, last, probe, listenerVars, storeVars, clientVars, raceVars>>

\* A caller calls the limiter: it is admitted, or it sleeps.
LimiterCall ==
    /\ limiter.calls < MaxCalls
    /\ \E c \in Callers :
         /\ limiter.callers[c].pc = "out"
         /\ LET delay == rateLimiter(limiter.lastRequestTime, limiter.clock)
                l1 == [limiter EXCEPT !.calls = @ + 1]
            IN limiter' =
                 IF delay = 0
                 THEN admit(l1, c, limiter.clock)
                 ELSE [l1 EXCEPT !.callers[c] =
                         [pc |-> "sleeping", calledAt |-> limiter.clock,
                          wake |-> limiter.clock + delay]]
    /\ UNCHANGED limiterFrame

\* The timer of a sleeping caller fires, on time or late.
LimiterWake ==
    /\ \E c \in Callers :
         /\ limiter.callers[c].pc = "sleeping"
         /\ limiter.clock >= limiter.callers[c].wake
         /\ limiter' = admit(limiter, c, limiter.callers[c].calledAt)
    /\ UNCHANGED limiterFrame

LimiterTick ==
    /\ limiter.clock < Epoch + MaxClockSteps * ClockStep
    /\ limiter' = [limiter EXCEPT !.clock = @ + ClockStep]
    /\ UNCHANGED limiterFrame

LimiterNext ==
    \/ LimiterCall
    \/ LimiterWake
    \/ LimiterTick

LimiterInit ==
    /\ tokenFile = AbsentFile
    /\ currentPKCE = NoPKCE
    /\ redirectUri = RedirectUri(ConfiguredPort)
    /\ callbackServer = "null"
    /\ callbackPort = PreferredPort
    /\ now = 0
    /\ authUrl = NoUrl
    /\ flowPc = "idle"
    /\ last = Obs("init", Return(VoidV), <<>>, NoResp)
    /\ probe = NoProbe
    /\ occupied = {}
    /\ wait = NoWait
    /\ served = <<>>
    /\ StoreStart("host1-alice")
    /\ client = ClientIdle
    /\ limiter = LimiterStart
    /\ suspended = NotSuspended

SpecLimiter == LimiterInit /\ [][LimiterNext]_vars

\* C32: the first call is admitted without delay; a call made at least
\* 100 ms after the previous admission is admitted without delay; any two
\* admissions of one limiter are at least 100 ms apart.
C32_RateLimited ==
    /\ [][ (limiter'.calls = limiter.calls + 1
              /\ (limiter.calls = 0
                    \/ (limiter.admitted # <<>>
                          /\ limiter.clock - limiter.admitted[Len(limiter.admitted)].at
                               >= MIN_INTERVAL))) =>
             /\ Len(limiter'.admitted) = Len(limiter.admitted) + 1
             /\ limiter'.admitted[Len(limiter'.admitted)].at = limiter.clock ]_vars
    /\ [](\A i, j \in 1..Len(limiter.admitted) :
            i < j => limiter.admitted[j].at - limiter.admitted[i].at >= MIN_INTERVAL)


\* C34: waitForCallback resolves with a code only when the state parameter
\* of the callback request equals the state of the authorization URL built
\* last.
C34_StateEnforced ==
    [][ (authUrl # NoUrl /\ wait.state = "pending" /\ wait'.state = "resolved") =>
          served'[Len(served')].req.state = authUrl.state ]_vars


Settled(w) == w.state \in {"resolved", "rejected"}

\* A request is served in this step.
Served == Len(served') = Len(served) + 1

\* C35: the first callback-path request, or the timeout if it fires first,
\* fixes the outcome of waitForCallback; a callback request or a timer that
\* comes afterwards changes neither the outcome nor the state of the wait,
\* and the timer is not left armed once the wait is settled.
C35_OneRedirect ==
    /\ [][ (Served /\ wait.state = "pending"
              /\ served'[Len(served')].req.path = CallbackPath) => Settled(wait') ]_vars
    /\ [][ (last'.op = "timeout" /\ wait.state = "pending") =>
             (wait'.state = "rejected" /\ wait'.outcome.err.msg = "OAuth callback timeout") ]_vars
    /\ [][ (Settled(wait) /\ (Served \/ last'.op = "timeout")) =>
             (wait'.state = wait.state /\ wait'.outcome = wait.outcome) ]_vars
    /\ [](Settled(wait) => wait.timer # "armed")

\* The wait resolved with the code of a first redirect; a second redirect,
\* with an error, came afterwards and the wait still holds the code.
C35_Witness ==
    /\ Len(served) = 2
    /\ served[1].req.path = CallbackPath /\ TruthyStr(served[1].req.code)
    /\ served[2].req.path = CallbackPath /\ TruthyStr(served[2].req.error)
    /\ served[2].status = 400
    /\ wait.state = "resolved"
    /\ wait.outcome.val = StrV(served[1].req.code)
    /\ wait.timer = "cleared"


\* C36: in completeOAuthFlow the redirect_uri of the authorization URL and
\* the redirect_uri of the token request are both
\* http://localhost:<port>/oauth/callback, <port> being the port the server
\* was bound to.
C36_BoundPortEverywhere ==
    [][ /\ last'.op = "completeOAuthFlow:wait" =>
             /\ authUrl'.redirect_uri = RedirectUri(callbackPort')
             /\ redirectUri' = RedirectUri(callbackPort')
        /\ (flowPc = "waiting" /\ last'.op = "completeOAuthFlow" /\ last'.reqs # <<>>) =>
             /\ last'.reqs[1].redirect_uri = RedirectUri(callbackPort)
             /\ last'.reqs[1].redirect_uri = authUrl.redirect_uri ]_vars

\* A flow bound to another port than the configured one sent its token
\* request.
C36_Witness ==
    /\ last.op = "completeOAuthFlow"
    /\ last.reqs # <<>>
    /\ callbackPort # ConfiguredPort
    /\ last.reqs[1].redirect_uri = RedirectUri(callbackPort)


\* completeOAuthFlow or exchangeCodeForTokens has just failed with a
\* challenge pending.
FailedWithChallenge ==
    /\ last.op \in {"exchangeCodeForTokens", "completeOAuthFlow"}
    /\ last.status = "error"
    /\ currentPKCE # NoPKCE

\* C37: a failure of completeOAuthFlow or of exchangeCodeForTokens leaves
\* the pending challenge as it was, and an exchangeCodeForTokens that
\* follows sends the verifier of that challenge and does not fail for want
\* of a challenge.
C37_ChallengeSurvivesFailure ==
    [][ /\ (last'.op \in {"exchangeCodeForTokens", "completeOAuthFlow"}
              /\ last'.status = "error" /\ currentPKCE # NoPKCE) =>
             currentPKCE' = currentPKCE
        /\ (FailedWithChallenge /\ last'.op = "exchangeCodeForTokens") =>
             /\ last'.reqs # <<>>
             /\ last'.reqs[1].code_verifier = currentPKCE.verifier
             /\ last'.err.msg # NoChallengeMsg ]_vars

\* completeOAuthFlow timed out and the challenge of its URL is still
\* pending.
C37_Witness ==
    /\ last.op = "completeOAuthFlow"
    /\ last.err.msg = "OAuth callback timeout"
    /\ currentPKCE # NoPKCE
    /\ generateSHA256Hash(currentPKCE.verifier) = authUrl.code_challenge


\* --------------------------- OAuthManager across the await of fetch() ----
\* exchangeCodeForTokens and refreshAccessToken suspend at `await fetch(...)`
\* with what they read before it; other calls of the manager run until the
\* answer arrives, and the rest of the method then acts on the state it finds.
RefreshOps == {"refreshAccessToken", "getValidAccessToken", "getValidTokens"}

\* The method op run on the state (f, pkce) with the answer resp.
RefreshCall(op, f, pkce, t, resp, w) ==
    CASE op = "getValidAccessToken" -> getValidAccessToken(f, pkce, t, resp, w)
      [] op = "getValidTokens" -> getValidTokens(f, pkce, t, resp, w)
      [] OTHER -> refreshAccessToken(f, pkce, t, resp, w)

\* refreshAccessToken from the answer of fetch() on: existingTokens and req
\* are what it read and sent before the await, f and pkce the state now.
refreshAccessTokenResume(f, pkce, existingTokens, req, t, resp, w) ==
    IF ~resp.net
    THEN Eff(f, pkce, Throw("fetch failed", 0, resp.text), <<req>>)
    ELSE IF ~ResponseOk(resp)
    THEN Eff(f, pkce, Throw("Token refresh failed", resp.status, resp.text), <<req>>)
    ELSE
      LET newTokens ==
            IF ~TruthyStr(resp.body.refresh_token) /\ TruthyStr(existingTokens.refresh_token)
            THEN [resp.body EXCEPT !.refresh_token = existingTokens.refresh_token]
            ELSE resp.body
          tokensWithExpiry == updateTokenExpiry(newTokens, t)
          written == saveTokens(f, tokensWithExpiry, w)
      IN IF written.ret.status = "error"
         THEN Eff(written.file, pkce, written.ret, <<req>>)
         ELSE Eff(written.file, pkce, Return(TokV(tokensWithExpiry)), <<req>>)

\* What the caller op of refreshAccessToken makes of its result e.
refreshedBy(op, e) ==
    CASE op = "getValidAccessToken" ->
           IF e.ret.status = "error"
           THEN Eff(e.file, e.pkce,
                    Throw("Token refresh failed. Re-authentication required.", 0, NoStr),
                    e.reqs)
           ELSE Eff(e.file, e.pkce, Return(StrV(e.ret.val.tokens.access_token)), e.reqs)
      [] op = "getValidTokens" ->
           IF e.ret.status = "error"
           THEN Eff(e.file, e.pkce, Return(NullV), e.reqs)
           ELSE e
      [] OTHER -> e

\* exchangeCodeForTokens from the answer of fetch() on: req is what it sent
\* before the await, f and pkce the state now.
exchangeCodeForTokensResume(f, pkce, req, t, resp, w) ==
    IF ~resp.net
    THEN Eff(f, pkce, Throw("fetch failed", 0, resp.text), <<req>>)
    ELSE IF ~ResponseOk(resp)
    THEN Eff(f, pkce, Throw("Token exchange failed", resp.status, resp.text), <<req>>)
    ELSE
      LET tokensWithExpiry == updateTokenExpiry(resp.body, t)
          written == saveTokens(f, tokensWithExpiry, w)
      IN IF written.ret.status = "error"
         THEN Eff(written.file, pkce, written.ret, <<req>>)
         ELSE Eff(written.file, NoPKCE, Return(TokV(tokensWithExpiry)), <<req>>)

RaceInit ==
    /\ tokenFile = AbsentFile
    /\ currentPKCE = NoPKCE
    /\ redirectUri = RedirectUri(ConfiguredPort)
    /\ callbackServer = "null"
    /\ callbackPort = PreferredPort
    /\ now = 0
    /\ authUrl = NoUrl
    /\ flowPc = "idle"
    /\ last = Obs("init", Return(VoidV), <<>>, NoResp)
    /\ probe = NoProbe
    /\ occupied = {}
    /\ wait = NoWait
    /\ served = <<>>
    /\ StoreStart("host1-alice")
    /\ client = ClientIdle
    /\ limiter = LimiterStart
    /\ suspended = NotSuspended

\* The call op reaches `await fetch(...)` having sent req.
Suspend(op, req, existingTokens) ==
    /\ suspended' = [op |-> op, req |-> req, existingTokens |-> existingTokens]
    /\ UNCHANGED <<tokenFile, currentPKCE, redirectUri, callbackServer, callbackPort, now,
                   authUrl, flowPc, last, probe, listenerVars, storeVars, clientVars,
                   limiterVars>>

\* The suspended call completes with the effect e.
Resume(e, resp) ==
    /\ tokenFile' = e.file
    /\ currentPKCE' = e.pkce
    /\ last' = Obs(suspended.op, e.ret, e.reqs, resp)
    /\ suspended' = NotSuspended
    /\ UNCHANGED <<redirectUri, callbackServer, callbackPort, now, authUrl, flowPc, probe,
                   listenerVars, storeVars, clientVars, limiterVars>>

\* exchangeCodeForTokens is called: it throws for want of a challenge, or
\* sends its request and awaits the answer.
ExchangeSend ==
    /\ Idle
    /\ suspended = NotSuspended
    /\ \E code \in Codes :
         LET e == exchangeCodeForTokens(tokenFile, currentPKCE, redirectUri, now, code,
                                        NoResp, "ok")
         IN IF e.reqs = <<>>
            THEN /\ Apply("exchangeCodeForTokens", e, NoResp)
                 /\ UNCHANGED <<redirectUri, callbackServer, callbackPort, now, authUrl, flowPc>>
            ELSE Suspend("exchangeCodeForTokens", e.reqs[1], NullTokens)

ExchangeResume ==
    /\ suspended.op = "exchangeCodeForTokens"
    /\ \E resp \in Responses :
       \E w \in Writes(resp) :
         Resume(exchangeCodeForTokensResume(tokenFile, currentPKCE, suspended.req, now,
                                            resp, w), resp)

\* refreshAccessToken is called, directly or by getValidAccessToken or
\* getValidTokens: the call completes without a request, or sends one and
\* awaits the answer.
RefreshSend ==
    /\ Idle
    /\ suspended = NotSuspended
    /\ \E op \in RefreshOps :
         LET e == RefreshCall(op, tokenFile, currentPKCE, now, NoResp, "ok") IN
         IF e.reqs = <<>>
         THEN /\ Apply(op, e, NoResp)
              /\ UNCHANGED <<redirectUri, callbackServer, callbackPort, now, authUrl, flowPc>>
         ELSE Suspend(op, e.reqs[1], loadTokens(tokenFile).val.tokens)

RefreshResume ==
    /\ suspended.op \in RefreshOps
    /\ \E resp \in Responses :
       \E w \in Writes(resp) :
         Resume(refreshedBy(suspended.op,
                            refreshAccessTokenResume(tokenFile, currentPKCE,
                                                     suspended.existingTokens,
                                                     suspended.req, now, resp, w)),
                resp)

RaceNext ==
    \/ GetAuthorizationUrl
    \/ ExchangeSend
    \/ ExchangeResume
    \/ RefreshSend
    \/ RefreshResume
    \/ ClearTokens
    \/ Tick

SpecRace == RaceInit /\ [][RaceNext]_vars

\* The file holds a credential record.
HasRecord(f) == f.kind = "good"

\* C38: once logout has left no file, a credential record appears again only
\* by a successful exchangeCodeForTokens, also when a refresh was suspended on
\* its token request while clearTokens ran.
C38_LogoutFinal ==
    [][ (tokenFile.kind = "absent" /\ HasRecord(tokenFile'))
          => (last'.op = "exchangeCodeForTokens" /\ last'.status = "ok") ]_vars

\* C39: a successful exchange leaves pending a challenge that
\* getAuthorizationUrl created while the exchange awaited its answer, so that
\* a following exchange can use it.
C39_NewerChallengeSurvives ==
    [][ ( /\ suspended.op = "exchangeCodeForTokens"
          /\ suspended' = NotSuspended
          /\ last'.status = "ok"
          /\ currentPKCE # NoPKCE
          /\ currentPKCE.verifier # suspended.req.code_verifier )
          => currentPKCE' = currentPKCE ]_vars


\* ------------------------------------------- CryptoManager.secureCompare ----
\* A JavaScript string is a sequence of UTF-16 code units: 'a', 'b', U+00E9,
\* a high and a low surrogate, and U+FFFD.
MaxChars == 2
CodeUnits == {97, 98, 233, 55296, 56320, 65533}
Strings == UNION { [1..n -> CodeUnits] : n \in 0..MaxChars }

IsHighSurrogate(c) == c >= 55296 /\ c <= 56319
IsLowSurrogate(c) == c >= 56320 /\ c <= 57343

\* The UTF-8 bytes of one code point; a surrogate that stands alone is
\* written as U+FFFD.
Utf8(cp) ==
    IF cp < 128 THEN <<cp>>
    ELSE IF cp < 2048 THEN <<192 + (cp \div 64), 128 + (cp % 64)>>
    ELSE IF IsHighSurrogate(cp) \/ IsLowSurrogate(cp) THEN <<239, 191, 189>>
    ELSE IF cp < 65536
    THEN <<224 + (cp \div 4096), 128 + ((cp \div 64) % 64), 128 + (cp % 64)>>
    ELSE <<240 + (cp \div 262144), 128 + ((cp \div 4096) % 64),
           128 + ((cp \div 64) % 64), 128 + (cp % 64)>>

\* Buffer.from(str): the UTF-8 encoding of the string.
RECURSIVE BufferFrom(_)
BufferFrom(str) ==
    IF str = <<>> THEN <<>>
    ELSE IF Len(str) >= 2 /\ IsHighSurrogate(str[1]) /\ IsLowSurrogate(str[2])
    THEN Utf8(65536 + (str[1] - 55296) * 1024 + (str[2] - 56320))
           \o BufferFrom(Tail(Tail(str)))
    ELSE Utf8(str[1]) \o BufferFrom(Tail(str))

\* crypto.timingSafeEqual: a RangeError for buffers of different byte length.
timingSafeEqual(bufferA, bufferB) ==
    IF Len(bufferA) # Len(bufferB)
    THEN Throw("Input buffers must have the same byte length", 0, "RangeError")
    ELSE Return(BoolV(bufferA = bufferB))

secureCompare(a, b) ==
    IF Len(a) # Len(b)
    THEN Return(BoolV(FALSE))
    ELSE
      LET bufferA == BufferFrom(a)
          bufferB == BufferFrom(b)
      IN timingSafeEqual(bufferA, bufferB)

CompareInit ==
    /\ tokenFile = AbsentFile
    /\ currentPKCE = NoPKCE
    /\ redirectUri = RedirectUri(ConfiguredPort)
    /\ callbackServer = "null"
    /\ callbackPort = PreferredPort
    /\ now = 0
    /\ authUrl = NoUrl
    /\ flowPc = "idle"
    /\ last = Obs("init", Return(VoidV), <<>>, NoResp)
    /\ \E a \in Strings, b \in Strings :
         probe = Probe("arguments", [a |-> a, b |-> b], [a |-> a, b |-> b], VoidV, NoNum, NoNum)
    /\ occupied = {}
    /\ wait = NoWait
    /\ served = <<>>
    /\ StoreStart("host1-alice")
    /\ client = ClientIdle
    /\ limiter = LimiterStart
    /\ suspended = NotSuspended

\* secureCompare called on the two strings.
SecureCompare ==
    /\ probe.op = "arguments"
    /\ LET ret == secureCompare(probe.arg.a, probe.arg.b) IN
         /\ probe' = Probe("secureCompare", probe.arg, probe.arg, ret.val, NoNum, NoNum)
         /\ last' = Obs("secureCompare", ret, <<>>, NoResp)
    /\ UNCHANGED <<tokenFile, currentPKCE, redirectUri, callbackServer, callbackPort,
                   now, authUrl, flowPc, listenerVars, storeVars, clientVars, limiterVars,
                   raceVars>>

CompareNext == SecureCompare

SpecCompare == CompareInit /\ [][CompareNext]_vars

\* C40: secureCompare raises no error on any two strings and returns true
\* exactly when they are the same string.
C40_SecureCompareIsEquality ==
    probe.op = "secureCompare"
      => /\ last.status = "ok"
         /\ last.val = BoolV(probe.arg.a = probe.arg.b)

====
